---------------------------- MODULE Spec2Model ----------------------------
(***************************************************************************)
(* Model of the task-relevance filter and the date resolver of the chat    *)
(* service (src/app/services/chat/chat.py).                                *)
(*                                                                         *)
(* Python strings are TLA+ strings; a value a task dictionary can hold     *)
(* under a key is a record [k, v]: k = "str" with the text in v, k =       *)
(* "none" for a JSON null, k = "absent" when the key is missing.           *)
(* The wall clock is the ordinal of the current day (datetime.now()); it   *)
(* may pass midnight between any two steps of a call.                      *)
(***************************************************************************)
EXTENDS Integers, Sequences, FiniteSets, TLC

VARIABLES
    now,             \* the wall clock: proleptic Gregorian ordinal of the current day
    ticks,           \* midnights passed since the call began (bounded by MaxTicks)
    tasks,           \* the list passed to filter_tasks_by_relevance
    tasks0,          \* the caller's copy of that list, taken before the call
    user_message,    \* the query passed to filter_tasks_by_relevance
    pc,              \* position of the call in filter_tasks_by_relevance
    rule,            \* the branch of the if/elif chain that was taken (0: none)
    fallback,        \* the fallback branch that was taken ("" when none)
    capped,          \* whether the final-cap branch (line 315) was taken
    selection,       \* filtered_tasks as it was when the if/elif chain ended
    filtered_tasks,  \* the local filtered_tasks
    today,           \* the locals holding formatted dates
    tomorrow,
    yesterday,
    start_date,
    end_date,
    result,          \* the returned list
    text,            \* the text passed to parse_date_from_text
    ppc,             \* position of the call in parse_date_from_text
    current_date,    \* the local current_date of parse_date_from_text
    pnow,            \* the clock value read by the return statement taken
    parsed,          \* the string parse_date_from_text returned
    calls,           \* the calls of the filter that run in parallel: per call
                     \* its arguments, its position, its local names, its result
    endpoint,        \* the route handler or service method a request runs
    request,         \* the fields of the request
    rpc,             \* position of the request in the handler and the service
    steps,           \* the services the handler has invoked so far, in order
    stt_result,      \* what convert_uploaded_file_to_text returned
    ai_response,     \* what the language-model call gave
    task_data,       \* the local task_data of process_voice_and_text
    service_result,  \* what the service method returned to the handler
    http_response    \* what the handler answered

vars == <<now, ticks, tasks, tasks0, user_message, pc, rule, fallback, capped,
          selection, filtered_tasks, today, tomorrow, yesterday, start_date,
          end_date, result, text, ppc, current_date, pnow, parsed, calls,
          endpoint, request, rpc, steps, stt_result, ai_response, task_data,
          service_result, http_response>>

filterVars == <<tasks, tasks0, user_message, pc, rule, fallback, capped, selection,
                filtered_tasks, today, tomorrow, yesterday, start_date, end_date,
                result>>

parseVars == <<text, ppc, current_date, pnow, parsed>>

routeVars == <<endpoint, request, rpc, steps, stt_result, ai_response, task_data,
               service_result, http_response>>

---------------------------------------------------------------------------
(* Bounds of the model.                                                    *)

\* midnights that may pass during one call
MaxTicks == 1
\* length of the longest task list
MaxTasks == 17

\* the final cap of the filter, the cut of the schedule fallback, the size of
\* each group of the default fallback, the words taken after a phrase
CapLimit == 15
ScheduleLimit == 10
GroupLimit == 3
KeywordLimit == 3

---------------------------------------------------------------------------
(* Python str.                                                             *)

\* the characters the model's texts use, in code-point order
Alphabet == " '-/0123456789?ABCDEFGHIJKLMNOPQRSTUVWXYZabcdefghijklmnopqrstuvwxyz"
UpperCase == "ABCDEFGHIJKLMNOPQRSTUVWXYZ"
LowerCase == "abcdefghijklmnopqrstuvwxyz"
Digits == "0123456789"

\* s[i-1:i]: the character at position i (from 1), "" outside the string
CharAt(s, i) == IF i \in 1..Len(s) THEN SubSeq(s, i, i) ELSE ""

\* position of character c in string s, 0 when it does not occur
IndexIn(s, c) ==
    IF \E i \in 1..Len(s) : CharAt(s, i) = c
    THEN CHOOSE i \in 1..Len(s) : CharAt(s, i) = c /\ \A j \in 1..(i - 1) : CharAt(s, j) # c
    ELSE 0

ord(c) == IndexIn(Alphabet, c)

isdigit(c) == IndexIn(Digits, c) > 0

\* str.lower() of one character
LowerChar(c) ==
    IF IndexIn(UpperCase, c) > 0 THEN CharAt(LowerCase, IndexIn(UpperCase, c)) ELSE c

RECURSIVE lower(_)
lower(s) == IF s = "" THEN "" ELSE LowerChar(CharAt(s, 1)) \o lower(SubSeq(s, 2, Len(s)))

\* `sub in s`
Contains(s, sub) ==
    \E i \in 0..(Len(s) - Len(sub)) : SubSeq(s, i + 1, i + Len(sub)) = sub

\* s.find(sub), 0-based, for a sub that occurs in s
find(s, sub) ==
    CHOOSE i \in 0..(Len(s) - Len(sub)) :
        /\ SubSeq(s, i + 1, i + Len(sub)) = sub
        /\ \A j \in 0..(i - 1) : SubSeq(s, j + 1, j + Len(sub)) # sub

\* s.split(): the maximal runs of non-blank characters, in order
RECURSIVE split(_)
split(s) ==
    IF s = "" THEN <<>>
    ELSE IF CharAt(s, 1) = " " THEN split(SubSeq(s, 2, Len(s)))
    ELSE LET stop == IF \E i \in 1..Len(s) : CharAt(s, i) = " "
                     THEN IndexIn(s, " ") ELSE Len(s) + 1
         IN <<SubSeq(s, 1, stop - 1)>> \o split(SubSeq(s, stop, Len(s)))

\* a < b and a <= b on str: lexicographic on code points
RECURSIVE StrLess(_, _)
StrLess(a, b) ==
    IF b = "" THEN FALSE
    ELSE IF a = "" THEN TRUE
    ELSE IF CharAt(a, 1) = CharAt(b, 1)
         THEN StrLess(SubSeq(a, 2, Len(a)), SubSeq(b, 2, Len(b)))
         ELSE ord(CharAt(a, 1)) < ord(CharAt(b, 1))

StrLeq(a, b) == a = b \/ StrLess(a, b)

\* seq[:n]
Take(seq, n) == SubSeq(seq, 1, IF Len(seq) < n THEN Len(seq) ELSE n)

\* any(keyword in s for keyword in keywords)
AnyIn(keywords, s) == \E i \in 1..Len(keywords) : Contains(s, keywords[i])

---------------------------------------------------------------------------
(* datetime: ordinals, calendar dates and strftime("%Y-%m-%d").            *)

IsLeap(y) == y % 4 = 0 /\ (y % 100 # 0 \/ y % 400 = 0)

DaysInMonth(y, m) ==
    IF m = 2 THEN (IF IsLeap(y) THEN 29 ELSE 28)
    ELSE IF m \in {4, 6, 9, 11} THEN 30 ELSE 31

RECURSIVE DaysBeforeMonth(_, _)
DaysBeforeMonth(y, m) ==
    IF m = 1 THEN 0 ELSE DaysBeforeMonth(y, m - 1) + DaysInMonth(y, m - 1)

DaysBeforeYear(y) ==
    LET p == y - 1 IN p * 365 + (p \div 4) - (p \div 100) + (p \div 400)

\* datetime(y, m, d) raises ValueError unless this holds
ValidDate(y, m, d) ==
    /\ y \in 1..9999
    /\ m \in 1..12
    /\ d \in 1..DaysInMonth(y, m)

\* date.toordinal()
ToOrdinal(y, m, d) == DaysBeforeYear(y) + DaysBeforeMonth(y, m) + d

RECURSIVE MonthOf(_, _, _)
MonthOf(y, m, n) ==
    IF n <= DaysInMonth(y, m) THEN <<m, n>> ELSE MonthOf(y, m + 1, n - DaysInMonth(y, m))

\* date.fromordinal(n) as <<year, month, day>>
FromOrdinal(n) ==
    LET n0 == n - 1
        n400 == n0 \div 146097
        r400 == n0 % 146097
        n100 == r400 \div 36524
        r100 == r400 % 36524
        n4 == r100 \div 1461
        r4 == r100 % 1461
        n1 == r4 \div 365
        r1 == r4 % 365
        y == n400 * 400 + n100 * 100 + n4 * 4 + n1 + 1
    IN IF n1 = 4 \/ n100 = 4 THEN <<y - 1, 12, 31>>
       ELSE LET md == MonthOf(y, 1, r1 + 1) IN <<y, md[1], md[2]>>

\* faulty variant of weekday: the ISO numbering, Monday = 1 to Sunday = 7
isoweekday(n) == ((n + 6) % 7) + 1

\* date.weekday(): Monday is 0
weekday(n) == (n + 6) % 7

\* the decimal digits of n, at least w of them
RECURSIVE Pad(_, _)
Pad(n, w) ==
    IF n < 10 /\ w <= 1 THEN CharAt(Digits, n + 1)
    ELSE Pad(n \div 10, w - 1) \o CharAt(Digits, (n % 10) + 1)

\* int(s) of a string of decimal digits
RECURSIVE int(_)
int(s) ==
    IF s = "" THEN 0
    ELSE int(SubSeq(s, 1, Len(s) - 1)) * 10 + (IndexIn(Digits, CharAt(s, Len(s))) - 1)

\* datetime(y, m, d).strftime("%Y-%m-%d")
FormatYMD(y, m, d) == Pad(y, 4) \o "-" \o Pad(m, 2) \o "-" \o Pad(d, 2)

\* (the date of ordinal n).strftime("%Y-%m-%d")
strftime(n) == LET d == FromOrdinal(n) IN FormatYMD(d[1], d[2], d[3])

---------------------------------------------------------------------------
(* Task dictionaries.                                                      *)

Str(s) == [k |-> "str", v |-> s]
None == [k |-> "none", v |-> ""]
Absent == [k |-> "absent", v |-> ""]

\* dict.get(key): None when the key is missing
get(field) == IF field.k = "absent" THEN None ELSE field

\* dict.get(key, ""): the default only when the key is missing
get_or_empty(field) == IF field.k = "absent" THEN Str("") ELSE field

\* truth value of a str or None
Truthy(value) == value.k = "str" /\ value.v # ""

\* task.get("date") or task.get("due_date")
get_task_date(task) ==
    IF Truthy(get(task.date)) THEN get(task.date) ELSE get(task.due_date)

\* get_task_date(task) == day
DatedOn(task, day) == get_task_date(task) = Str(day)

\* get_task_date(task) and lo <= get_task_date(task) <= hi
DatedWithin(task, lo, hi) ==
    /\ Truthy(get_task_date(task))
    /\ StrLeq(lo, get_task_date(task).v)
    /\ StrLeq(get_task_date(task).v, hi)

\* faulty variant of IsOverdue: a task dated the day itself counts as overdue
IsOverdueOrToday(task, day) ==
    /\ Truthy(get_task_date(task))
    /\ StrLeq(get_task_date(task).v, day)
    /\ get(task.status) # Str("completed")

\* get_task_date(task) and get_task_date(task) < today and status != "completed"
IsOverdue(task, day) ==
    /\ Truthy(get_task_date(task))
    /\ StrLess(get_task_date(task).v, day)
    /\ get(task.status) # Str("completed")

\* 0 if priority == "high" else 1 if priority == "medium" else 2
PriorityRank(task) ==
    IF get(task.priority) = Str("high") THEN 0
    ELSE IF get(task.priority) = Str("medium") THEN 1 ELSE 2

\* faulty variant of DateOrSentinel: a missing date sorts as the empty string
DateOrEmpty(task) ==
    IF Truthy(get_task_date(task)) THEN get_task_date(task).v ELSE ""

\* get_task_date(x) or "9999-12-31"
DateOrSentinel(task) ==
    IF Truthy(get_task_date(task)) THEN get_task_date(task).v ELSE "9999-12-31"

\* faulty variant of CapKeyLess: the final cap sorted with the key of the
\* schedule fallback, priority rank before date
CapKeyLessPriorityFirst(a, b) ==
    \/ PriorityRank(a) < PriorityRank(b)
    \/ PriorityRank(a) = PriorityRank(b) /\ StrLess(DateOrSentinel(a), DateOrSentinel(b))

\* the key of the final cap, (date, priority rank), compared as Python tuples
CapKeyLess(a, b) ==
    \/ StrLess(DateOrSentinel(a), DateOrSentinel(b))
    \/ DateOrSentinel(a) = DateOrSentinel(b) /\ PriorityRank(a) < PriorityRank(b)

\* the key of the schedule fallback, (priority rank, date)
ScheduleKeyLess(a, b) ==
    \/ PriorityRank(a) < PriorityRank(b)
    \/ PriorityRank(a) = PriorityRank(b) /\ StrLess(DateOrSentinel(a), DateOrSentinel(b))

\* the comparison of the two sort keys of the filter: "date" is the key of the
\* final cap, "priority" the key of the schedule fallback
KeyLess(key, a, b) == IF key = "date" THEN CapKeyLess(a, b) ELSE ScheduleKeyLess(a, b)

\* sorted(seq, key=...): stable, an element goes after every element that is
\* not greater than it
RECURSIVE sorted(_, _)
sorted(seq, key) ==
    IF seq = <<>> THEN <<>>
    ELSE LET n == Len(seq)
             x == seq[n]
             done == sorted(SubSeq(seq, 1, n - 1), key)
             keep == Cardinality({i \in 1..(n - 1) : ~KeyLess(key, x, done[i])})
         IN SubSeq(done, 1, keep) \o <<x>> \o SubSeq(done, keep + 1, n - 1)

\* title.lower() or description.lower() raises AttributeError on None
LowerRaises(task) == get_or_empty(task.title).k = "none" \/
                     get_or_empty(task.description).k = "none"

\* any(keyword in title or keyword in description for keyword in keywords),
\* title and description lower-cased
TextMatches(task, keywords) ==
    \E i \in 1..Len(keywords) :
        \/ Contains(lower(get_or_empty(task.title).v), keywords[i])
        \/ Contains(lower(get_or_empty(task.description).v), keywords[i])

---------------------------------------------------------------------------
(* filter_tasks_by_relevance: the if/elif chain.                           *)

\* the keyword lists of the eleven branches, in the order of the chain
RuleKeywords == <<
    <<"today", "today's">>,
    <<"tomorrow", "tomorrow's">>,
    <<"next week", "next 7 days", "upcoming week">>,
    <<"this week", "week">>,
    <<"urgent", "high priority", "important">>,
    <<"low priority", "least important">>,
    <<"pending", "not started", "todo">>,
    <<"in progress", "working on", "current">>,
    <<"completed", "done", "finished">>,
    <<"overdue", "late", "past due">>,
    <<"about", "regarding", "related to">> >>

ScheduleKeywords == <<"schedule", "agenda", "calendar", "tasks", "what do i have",
                      "meeting", "meetings", "appointments">>
MeetingQueryKeywords == <<"meeting", "meetings", "appointment", "appointments">>
meeting_keywords == <<"meeting", "conference", "call", "appointment", "attendance",
                      "conferencia">>

message_lower == lower(user_message)

\* faulty variant of Branch: the last branch whose keyword list has a member
\* occurring in m (a chain of independent ifs instead of if/elif)
BranchLastMatch(m) ==
    IF \E r \in 1..Len(RuleKeywords) : AnyIn(RuleKeywords[r], m)
    THEN CHOOSE r \in 1..Len(RuleKeywords) :
             /\ AnyIn(RuleKeywords[r], m)
             /\ \A q \in (r + 1)..Len(RuleKeywords) : ~AnyIn(RuleKeywords[q], m)
    ELSE 0

\* the branch of the if/elif chain that message m takes: the first whose
\* keyword list has a member occurring in m, 0 when none has
Branch(m) ==
    IF \E r \in 1..Len(RuleKeywords) : AnyIn(RuleKeywords[r], m)
    THEN CHOOSE r \in 1..Len(RuleKeywords) :
             /\ AnyIn(RuleKeywords[r], m)
             /\ \A q \in 1..(r - 1) : ~AnyIn(RuleKeywords[q], m)
    ELSE 0

\* faulty variant of WordsAfter: the words are taken from the start of the
\* message instead of from the end of the phrase
WordsAfterFromStart(m, phrase) ==
    IF Contains(m, phrase) THEN Take(split(m), KeywordLimit) ELSE <<>>

\* message_lower[start_idx:].strip().split()[:3] for one phrase
WordsAfter(m, phrase) ==
    IF Contains(m, phrase)
    THEN Take(split(SubSeq(m, find(m, phrase) + Len(phrase) + 1, Len(m))), KeywordLimit)
    ELSE <<>>

\* the list keywords built by the loop over the three phrases
ExtractKeywords(m) ==
    WordsAfter(m, "about") \o WordsAfter(m, "regarding") \o WordsAfter(m, "related to")

\* faulty variant of SelectDatedOn: the effective date is written back into
\* the "date" key of each selected record
SelectDatedOnFilled(seq, day) ==
    LET sel == SelectSeq(seq, LAMBDA t : DatedOn(t, day))
    IN [i \in 1..Len(sel) |-> [sel[i] EXCEPT !.date = Str(day)]]

\* [task for task in seq if get_task_date(task) == day]
SelectDatedOn(seq, day) == SelectSeq(seq, LAMBDA t : DatedOn(t, day))

\* [task for task in seq if get_task_date(task) and lo <= get_task_date(task) <= hi]
SelectDatedWithin(seq, lo, hi) == SelectSeq(seq, LAMBDA t : DatedWithin(t, lo, hi))

\* [task for task in seq if task.get("priority") == value]
SelectPriority(seq, value) == SelectSeq(seq, LAMBDA t : get(t.priority) = Str(value))

\* [task for task in seq if task.get("status") == value]
SelectStatus(seq, value) == SelectSeq(seq, LAMBDA t : get(t.status) = Str(value))

\* the overdue comprehension of line 248
SelectOverdue(seq, day) == SelectSeq(seq, LAMBDA t : IsOverdue(t, day))

\* the loops of lines 264-268 and 284-288
SelectTextMatches(seq, keywords) == SelectSeq(seq, LAMBDA t : TextMatches(t, keywords))

\* the end of the if/elif chain with filtered_tasks = sel, taken by branch r
Selected(r, sel) ==
    /\ rule' = r
    /\ selection' = sel
    /\ filtered_tasks' = sel
    /\ pc' = "selected"

\* what no step of the filter changes
FilterFrame ==
    UNCHANGED <<now, ticks, tasks, tasks0, user_message, parseVars, calls, routeVars>>

\* line 196: if not tasks: return []
EmptyInput ==
    /\ pc = "call"
    /\ tasks = <<>>
    /\ pc' = "done"
    /\ result' = <<>>
    /\ FilterFrame
    /\ UNCHANGED <<rule, fallback, capped, selection, filtered_tasks, today, tomorrow,
                   yesterday, start_date, end_date>>

\* faulty variant of Enters: the chain is entered whether or not the list is
\* empty (the early return of line 196 is missing)
EntersUnguarded(r) == pc = "call" /\ Branch(message_lower) = r

\* a branch of the chain is entered at pc = "call" with a non-empty list
Enters(r) == pc = "call" /\ tasks # <<>> /\ Branch(message_lower) = r

\* lines 206-208
RuleToday ==
    /\ Enters(1)
    /\ today' = strftime(now)
    /\ Selected(1, SelectDatedOn(tasks, strftime(now)))
    /\ FilterFrame
    /\ UNCHANGED <<fallback, capped, tomorrow, yesterday, start_date, end_date, result>>

\* lines 210-212
RuleTomorrow ==
    /\ Enters(2)
    /\ tomorrow' = strftime(now + 1)
    /\ Selected(2, SelectDatedOn(tasks, strftime(now + 1)))
    /\ FilterFrame
    /\ UNCHANGED <<fallback, capped, today, yesterday, start_date, end_date, result>>

\* lines 214-215: the first clock read of the branch
RuleNextWeekStart ==
    /\ Enters(3)
    /\ start_date' = strftime(now)
    /\ rule' = 3
    /\ pc' = "next_week_end"
    /\ FilterFrame
    /\ UNCHANGED <<fallback, capped, selection, filtered_tasks, today, tomorrow,
                   yesterday, end_date, result>>

\* lines 216-217: the second clock read and the comprehension
RuleNextWeekEnd ==
    /\ pc = "next_week_end"
    /\ end_date' = strftime(now + 7)
    /\ Selected(3, SelectDatedWithin(tasks, start_date, strftime(now + 7)))
    /\ FilterFrame
    /\ UNCHANGED <<fallback, capped, today, tomorrow, yesterday, start_date, result>>

\* lines 219-226: one clock read, the Monday on or before it and that Monday + 6
RuleThisWeek ==
    /\ Enters(4)
    /\ LET start_of_week == now - weekday(now)
           end_of_week == start_of_week + 6
       IN /\ start_date' = strftime(start_of_week)
          /\ end_date' = strftime(end_of_week)
          /\ Selected(4, SelectDatedWithin(tasks, strftime(start_of_week),
                                           strftime(end_of_week)))
    /\ FilterFrame
    /\ UNCHANGED <<fallback, capped, today, tomorrow, yesterday, result>>

\* lines 229-230
RuleHighPriority ==
    /\ Enters(5)
    /\ Selected(5, SelectPriority(tasks, "high"))
    /\ FilterFrame
    /\ UNCHANGED <<fallback, capped, today, tomorrow, yesterday, start_date, end_date,
                   result>>

\* lines 232-233
RuleLowPriority ==
    /\ Enters(6)
    /\ Selected(6, SelectPriority(tasks, "low"))
    /\ FilterFrame
    /\ UNCHANGED <<fallback, capped, today, tomorrow, yesterday, start_date, end_date,
                   result>>

\* lines 236-237
RulePending ==
    /\ Enters(7)
    /\ Selected(7, SelectStatus(tasks, "pending"))
    /\ FilterFrame
    /\ UNCHANGED <<fallback, capped, today, tomorrow, yesterday, start_date, end_date,
                   result>>

\* lines 239-240
RuleInProgress ==
    /\ Enters(8)
    /\ Selected(8, SelectStatus(tasks, "in progress"))
    /\ FilterFrame
    /\ UNCHANGED <<fallback, capped, today, tomorrow, yesterday, start_date, end_date,
                   result>>

\* lines 242-243
RuleCompleted ==
    /\ Enters(9)
    /\ Selected(9, SelectStatus(tasks, "completed"))
    /\ FilterFrame
    /\ UNCHANGED <<fallback, capped, today, tomorrow, yesterday, start_date, end_date,
                   result>>

\* lines 246-248
RuleOverdue ==
    /\ Enters(10)
    /\ today' = strftime(now)
    /\ Selected(10, SelectOverdue(tasks, strftime(now)))
    /\ FilterFrame
    /\ UNCHANGED <<fallback, capped, tomorrow, yesterday, start_date, end_date, result>>

\* lines 251-268, when no .lower() of the loop raises; with no keyword after
\* the phrases filtered_tasks stays empty
RuleKeywordSearch ==
    /\ Enters(11)
    /\ LET keywords == ExtractKeywords(message_lower)
       IN IF keywords = <<>>
          THEN Selected(11, <<>>)
          ELSE /\ \A i \in 1..Len(tasks) : ~LowerRaises(tasks[i])
               /\ Selected(11, SelectTextMatches(tasks, keywords))
    /\ FilterFrame
    /\ UNCHANGED <<fallback, capped, today, tomorrow, yesterday, start_date, end_date,
                   result>>

\* lines 265-266: .lower() on a title or description that is None raises
\* AttributeError, which the function does not catch
RuleKeywordSearchRaises ==
    /\ Enters(11)
    /\ ExtractKeywords(message_lower) # <<>>
    /\ \E i \in 1..Len(tasks) : LowerRaises(tasks[i])
    /\ rule' = 11
    /\ pc' = "raised"
    /\ FilterFrame
    /\ UNCHANGED <<fallback, capped, selection, filtered_tasks, today, tomorrow,
                   yesterday, start_date, end_date, result>>

\* no branch of the chain is taken: filtered_tasks stays []
NoRule ==
    /\ Enters(0)
    /\ Selected(0, <<>>)
    /\ FilterFrame
    /\ UNCHANGED <<fallback, capped, today, tomorrow, yesterday, start_date, end_date,
                   result>>

---------------------------------------------------------------------------
(* filter_tasks_by_relevance: the fallbacks (lines 271-312).               *)

\* line 273
HasScheduleIntent(m) == AnyIn(ScheduleKeywords, m)
\* line 275
HasMeetingIntent(m) == AnyIn(MeetingQueryKeywords, m)

\* faulty variant of ScheduleOrder: the sort without the [:10] slice
ScheduleOrderUncut(seq) == sorted(seq, "priority")

\* lines 299-302: sorted by (priority rank, date), the first 10
ScheduleOrder(seq) == Take(sorted(seq, "priority"), ScheduleLimit)

\* faulty variant of NarrowToMeetings: the meeting tasks are appended to the
\* windowed tasks instead of replacing them
NarrowToMeetingsAppended(windowed) ==
    windowed \o SelectTextMatches(windowed, meeting_keywords)

\* lines 282-291: the meeting tasks of the window when there is one, else the window
NarrowToMeetings(windowed) ==
    IF SelectTextMatches(windowed, meeting_keywords) # <<>>
    THEN SelectTextMatches(windowed, meeting_keywords)
    ELSE windowed

\* line 271 is false: the chain selected something and every fallback is skipped
KeepSelection ==
    /\ pc = "selected"
    /\ filtered_tasks # <<>>
    /\ pc' = "cap"
    /\ FilterFrame
    /\ UNCHANGED <<rule, fallback, capped, selection, filtered_tasks, today, tomorrow,
                   yesterday, start_date, end_date, result>>

\* faulty variant of Falls: the fallbacks are entered whatever was selected
FallsAlways == pc = "selected"

\* a fallback is entered with nothing selected
Falls == pc = "selected" /\ filtered_tasks = <<>>

\* line 277: the first clock read of the meeting fallback
FallbackMeetingStart ==
    /\ Falls
    /\ HasScheduleIntent(message_lower)
    /\ HasMeetingIntent(message_lower)
    /\ yesterday' = strftime(now - 1)
    /\ fallback' = "meeting"
    /\ pc' = "meeting_end"
    /\ FilterFrame
    /\ UNCHANGED <<rule, capped, selection, filtered_tasks, today, tomorrow, start_date,
                   end_date, result>>

\* lines 278-302, when no .lower() of the loop raises
FallbackMeetingEnd ==
    /\ pc = "meeting_end"
    /\ LET windowed == SelectDatedWithin(tasks, yesterday, strftime(now + 7))
       IN /\ \A i \in 1..Len(windowed) : ~LowerRaises(windowed[i])
          /\ filtered_tasks' = ScheduleOrder(NarrowToMeetings(windowed))
    /\ end_date' = strftime(now + 7)
    /\ pc' = "cap"
    /\ FilterFrame
    /\ UNCHANGED <<rule, fallback, capped, selection, today, tomorrow, yesterday,
                   start_date, result>>

\* lines 285-286: .lower() on a title or description that is None raises
FallbackMeetingRaises ==
    /\ pc = "meeting_end"
    /\ LET windowed == SelectDatedWithin(tasks, yesterday, strftime(now + 7))
       IN \E i \in 1..Len(windowed) : LowerRaises(windowed[i])
    /\ end_date' = strftime(now + 7)
    /\ pc' = "raised"
    /\ FilterFrame
    /\ UNCHANGED <<rule, fallback, capped, selection, filtered_tasks, today, tomorrow,
                   yesterday, start_date, result>>

\* line 294: the first clock read of the general schedule fallback
FallbackScheduleStart ==
    /\ Falls
    /\ HasScheduleIntent(message_lower)
    /\ ~HasMeetingIntent(message_lower)
    /\ start_date' = strftime(now)
    /\ fallback' = "schedule"
    /\ pc' = "schedule_end"
    /\ FilterFrame
    /\ UNCHANGED <<rule, capped, selection, filtered_tasks, today, tomorrow, yesterday,
                   end_date, result>>

\* lines 295-302
FallbackScheduleEnd ==
    /\ pc = "schedule_end"
    /\ end_date' = strftime(now + 7)
    /\ filtered_tasks' =
           ScheduleOrder(SelectDatedWithin(tasks, start_date, strftime(now + 7)))
    /\ pc' = "cap"
    /\ FilterFrame
    /\ UNCHANGED <<rule, fallback, capped, selection, today, tomorrow, yesterday,
                   start_date, result>>

\* line 306: the first clock read of the default fallback
FallbackDefaultToday ==
    /\ Falls
    /\ ~HasScheduleIntent(message_lower)
    /\ today' = strftime(now)
    /\ fallback' = "default"
    /\ pc' = "default_tomorrow"
    /\ FilterFrame
    /\ UNCHANGED <<rule, capped, selection, filtered_tasks, tomorrow, yesterday,
                   start_date, end_date, result>>

\* lines 307-312
FallbackDefaultTomorrow ==
    /\ pc = "default_tomorrow"
    /\ tomorrow' = strftime(now + 1)
    /\ filtered_tasks' = Take(SelectDatedOn(tasks, today), GroupLimit)
                         \o Take(SelectDatedOn(tasks, strftime(now + 1)), GroupLimit)
    /\ pc' = "cap"
    /\ FilterFrame
    /\ UNCHANGED <<rule, fallback, capped, selection, today, yesterday, start_date,
                   end_date, result>>

---------------------------------------------------------------------------
(* filter_tasks_by_relevance: the final cap and the return (lines 315-323). *)

\* faulty variant of CapOrder: the sort without the [:15] slice
CapOrderUncut(seq) == sorted(seq, "date")

\* lines 317-320: sorted by (date, priority rank), the first 15
CapOrder(seq) == Take(sorted(seq, "date"), CapLimit)

\* line 315 is true
FinalCap ==
    /\ pc = "cap"
    /\ Len(filtered_tasks) > CapLimit
    /\ filtered_tasks' = CapOrder(filtered_tasks)
    /\ capped' = TRUE
    /\ result' = CapOrder(filtered_tasks)
    /\ pc' = "done"
    /\ FilterFrame
    /\ UNCHANGED <<rule, fallback, selection, today, tomorrow, yesterday, start_date,
                   end_date>>

\* line 315 is false
ReturnUncapped ==
    /\ pc = "cap"
    /\ Len(filtered_tasks) <= CapLimit
    /\ result' = filtered_tasks
    /\ pc' = "done"
    /\ FilterFrame
    /\ UNCHANGED <<rule, fallback, capped, selection, filtered_tasks, today, tomorrow,
                   yesterday, start_date, end_date>>

---------------------------------------------------------------------------
(* The wall clock.                                                         *)

\* midnight passes while a call is running
Tick ==
    /\ pc \notin {"idle", "done", "raised"} \/ ppc \notin {"idle", "done"}
    /\ ticks < MaxTicks
    /\ now' = now + 1
    /\ ticks' = ticks + 1
    /\ UNCHANGED <<filterVars, parseVars, calls, routeVars>>

---------------------------------------------------------------------------
(* The inputs of the model.                                                *)

\* the day the clock shows when a call begins: Tuesday 2024-02-27
BaseDay == ToOrdinal(2024, 2, 27)

\* the date k days from BaseDay, as task records carry it
Day(k) == Str(strftime(BaseDay + k))

Task(title, description, date, due_date, priority, status) ==
    [ref |-> 0, title |-> title, description |-> description, date |-> date,
     due_date |-> due_date, priority |-> priority, status |-> status]

\* the task records the lists are made of: well-formed ones, legacy ones
\* (due_date only), dateless ones, and ones with null, missing or unrecognised
\* fields
TaskPool == <<
    Task(Str("Budget meeting"), Str("Quarterly report"), Day(0), Absent,
         Str("high"), Str("pending")),
    Task(Str("Call the bank"), Absent, Day(0), Absent, Str("low"), Str("in progress")),
    Task(Str("Gym"), Str(""), Day(1), Absent, Str("medium"), Str("completed")),
    Task(Str("Write REPORT"), Str("for the board"), Absent, Day(1),
         Str("high"), Str("pending")),
    Task(Str("Dentist appointment"), Absent, Day(7), Absent, Absent, Absent),
    Task(Str("Taxes"), Str("file them"), Day(-1), Day(5), Str("urgent"), Str("pending")),
    Task(Str("Old chore"), Absent, Day(-3), Absent, Str("low"), Str("completed")),
    Task(Str("Someday"), Absent, Absent, Absent, Str("high"), Str("pending")),
    Task(None, Str("weekly sync"), Day(2), Absent, Str("medium"), Str("pending")),
    Task(Str("Plan"), None, Str(""), Day(8), None, None),
    Task(Absent, Absent, Str("soon"), Absent, Str("HIGH"), Str("Completed")),
    Task(Str("Review"), Absent, Day(3), Absent, Str("medium"), Str("in progress")),
    Task(Str("Laundry"), Absent, Day(0), Absent, Str("medium"), Str("pending")),
    Task(Str("Standup"), Str("team call"), None, Day(0), Str("high"), Str("completed")),
    Task(Str("Team meeting"), Str("Conference room"), Day(1), Absent,
         Str("medium"), Str("pending")),
    Task(Str("Renew passport"), Absent, Day(-2), Absent, Str("medium"), Absent),
    Task(Str("Archive"), Absent, Str("9999-12-31"), Absent, Str("low"), Str("pending")),
    Task(Str("Board call"), Absent, Day(8), Absent, Str("low"), Str("pending")),
    Task(Str("Launch"), Absent, Day(7), Absent, Str("high"), Str("pending")),
    Task(Str("Client call"), Absent, Day(-1), Absent, Str("medium"), Str("pending")) >>

\* the list of n records that cycles through the pool positions of pattern;
\* ref is the identity of the record object: its position in the list
MakeList(pattern, n) ==
    [i \in 1..n |-> [TaskPool[pattern[((i - 1) % Len(pattern)) + 1]] EXCEPT !.ref = i]]

ListShapes == {
    <<<<1>>, 0>>,
    <<<<1, 2, 13>>, 3>>,
    <<<<1, 2, 13, 14>>, MaxTasks>>,
    <<<<1, 2, 3, 4, 5, 6, 7, 8, 12>>, 2>>,
    <<<<1, 2, 3, 4, 5, 6, 7, 8, 12>>, 9>>,
    <<<<1, 2, 3, 4, 5, 6, 7, 8, 12>>, MaxTasks>>,
    <<<<9, 1, 10, 11>>, 1>>,
    <<<<9, 1, 10, 11>>, 4>>,
    <<<<8, 1, 4, 14, 8>>, MaxTasks>>,
    <<<<3, 7>>, 2>>,
    <<<<5, 12, 6, 16, 7, 13, 8>>, 7>>,
    <<<<17, 8, 1, 4, 13>>, MaxTasks>>,
    <<<<6, 18, 1, 12, 19, 13>>, 6>>,
    <<<<20, 12, 18>>, 3>>,
    <<<<1, 3, 15, 2, 4>>, 10>>,
    <<<<12, 2, 3, 1, 5, 4, 13>>, MaxTasks>> }

TaskLists == {MakeList(shape[1], shape[2]) : shape \in ListShapes}

Queries == {
    "today",
    "What's due TODAY?",
    "urgent tasks for today",
    "meeting tomorrow",
    "plans for next week",
    "this week",
    "what is urgent",
    "least important",
    "low priority tasks",
    "pending items",
    "in progress",
    "what is done",
    "overdue tasks",
    "about the budget report",
    "related to budget",
    "tell me about ",
    "show my schedule",
    "any meetings",
    "my appointment",
    "hello" }

---------------------------------------------------------------------------
(* The specification of the filter.                                        *)

\* a request field or a result that is not there
NoRequest == [filename |-> "", date_time |-> "", text |-> "", task_context |-> ""]
NoSttResult == [success |-> FALSE, text |-> "", message |-> ""]
NoAiResponse == [kind |-> "", content |-> ""]
NoTaskData == [k |-> "unset"]
NoServiceResult == [k |-> "unset"]
NoBody == [k |-> "unset"]
NoHttpResponse == [status |-> 0, detail |-> "", body |-> NoBody]

\* no request is being handled
RouteIdle ==
    /\ endpoint = ""
    /\ request = NoRequest
    /\ rpc = "idle"
    /\ steps = <<>>
    /\ stt_result = NoSttResult
    /\ ai_response = NoAiResponse
    /\ task_data = NoTaskData
    /\ service_result = NoServiceResult
    /\ http_response = NoHttpResponse

\* the calls that can run in parallel
Calls == {1, 2}

\* no call runs in parallel
NoCalls ==
    [pc |-> [c \in Calls |-> "idle"],
     args |-> [c \in Calls |-> [tasks |-> <<>>, user_message |-> ""]],
     frame |-> [c \in Calls |-> [message_lower |-> "", filtered_tasks |-> <<>>]],
     result |-> [c \in Calls |-> <<>>]]

\* the state in which parse_date_from_text is not running
ParseIdle ==
    /\ text = ""
    /\ ppc = "idle"
    /\ current_date = ""
    /\ pnow = 0
    /\ parsed = ""

\* a caller hands a task list and a query to filter_tasks_by_relevance
Init ==
    /\ now = BaseDay
    /\ ticks = 0
    /\ tasks \in TaskLists
    /\ tasks0 = tasks
    /\ user_message \in Queries
    /\ pc = "call"
    /\ rule = 0
    /\ fallback = ""
    /\ capped = FALSE
    /\ selection = <<>>
    /\ filtered_tasks = <<>>
    /\ today = ""
    /\ tomorrow = ""
    /\ yesterday = ""
    /\ start_date = ""
    /\ end_date = ""
    /\ result = <<>>
    /\ ParseIdle
    /\ calls = NoCalls
    /\ RouteIdle

Next ==
    \/ EmptyInput
    \/ RuleToday
    \/ RuleTomorrow
    \/ RuleNextWeekStart
    \/ RuleNextWeekEnd
    \/ RuleThisWeek
    \/ RuleHighPriority
    \/ RuleLowPriority
    \/ RulePending
    \/ RuleInProgress
    \/ RuleCompleted
    \/ RuleOverdue
    \/ RuleKeywordSearch
    \/ RuleKeywordSearchRaises
    \/ NoRule
    \/ KeepSelection
    \/ FallbackMeetingStart
    \/ FallbackMeetingEnd
    \/ FallbackMeetingRaises
    \/ FallbackScheduleStart
    \/ FallbackScheduleEnd
    \/ FallbackDefaultToday
    \/ FallbackDefaultTomorrow
    \/ FinalCap
    \/ ReturnUncapped
    \/ Tick

Spec == Init /\ [][Next]_vars

---------------------------------------------------------------------------
(* parse_date_from_text (lines 163-192).                                   *)

\* whether the characters i .. i+n-1 of s exist and are all decimal digits
DigitsAt(s, i, n) == i + n - 1 <= Len(s) /\ \A j \in i..(i + n - 1) : isdigit(CharAt(s, j))

\* whether (\d{1,2})/(\d{1,2})/(\d{4}) matches at position i of s with a day of
\* dl digits and a month of ml digits
MatchesAt(s, i, dl, ml) ==
    /\ DigitsAt(s, i, dl)
    /\ CharAt(s, i + dl) = "/"
    /\ DigitsAt(s, i + dl + 1, ml)
    /\ CharAt(s, i + dl + 1 + ml) = "/"
    /\ DigitsAt(s, i + dl + ml + 2, 4)

\* the <<position, day digits, month digits>> at which the pattern matches
MatchPlaces(s) ==
    {m \in (1..Len(s)) \X {2, 1} \X {2, 1} : MatchesAt(s, m[1], m[2], m[3])}

\* re.search: the leftmost match (at one position at most one split of the
\* digits matches); its groups as <<day, month, year>> strings, <<>> for None
search(s) ==
    IF MatchPlaces(s) = {} THEN <<>>
    ELSE LET m == CHOOSE x \in MatchPlaces(s) : \A z \in MatchPlaces(s) : x[1] <= z[1]
             i == m[1]
             dl == m[2]
             ml == m[3]
         IN <<SubSeq(s, i, i + dl - 1),
              SubSeq(s, i + dl + 1, i + dl + ml),
              SubSeq(s, i + dl + ml + 2, i + dl + ml + 5)>>

\* the exception datetime(int(year), int(month), int(day)) raises, "" for none
DatetimeError(groups) ==
    IF ValidDate(int(groups[3]), int(groups[2]), int(groups[1])) THEN "" ELSE "ValueError"

\* faulty variant of Caught: the except clause names another exception type
CaughtNothing(exc) == exc = "TypeError"

\* line 188: except ValueError
Caught(exc) == exc = "ValueError"

\* faulty variant of RelativePhrase: "tomorrow" is tested before "today"
RelativePhraseTomorrowFirst(text_lower) ==
    IF Contains(text_lower, "tomorrow") THEN "tomorrow"
    ELSE IF Contains(text_lower, "today") THEN "today"
    ELSE IF Contains(text_lower, "next week") THEN "next week"
    ELSE IF Contains(text_lower, "next month") THEN "next month"
    ELSE ""

\* the first relative phrase of the if/elif chain of lines 170-177 that
\* occurs in the lower-cased text, "" when none occurs
RelativePhrase(text_lower) ==
    IF Contains(text_lower, "today") THEN "today"
    ELSE IF Contains(text_lower, "tomorrow") THEN "tomorrow"
    ELSE IF Contains(text_lower, "next week") THEN "next week"
    ELSE IF Contains(text_lower, "next month") THEN "next month"
    ELSE ""

\* what no step of parse_date_from_text changes
ParseFrame == UNCHANGED <<now, ticks, text, filterVars, calls, routeVars>>

\* line 165: the first clock read
ParseEnter ==
    /\ ppc = "call"
    /\ current_date' = strftime(now)
    /\ pnow' = now
    /\ ppc' = "resolve"
    /\ ParseFrame
    /\ UNCHANGED parsed

\* lines 170-171
ParseToday ==
    /\ ppc = "resolve"
    /\ RelativePhrase(lower(text)) = "today"
    /\ parsed' = current_date
    /\ ppc' = "done"
    /\ ParseFrame
    /\ UNCHANGED <<current_date, pnow>>

\* lines 172-173: a second clock read
ParseTomorrow ==
    /\ ppc = "resolve"
    /\ RelativePhrase(lower(text)) = "tomorrow"
    /\ parsed' = strftime(now + 1)
    /\ pnow' = now
    /\ ppc' = "done"
    /\ ParseFrame
    /\ UNCHANGED current_date

\* lines 174-175
ParseNextWeek ==
    /\ ppc = "resolve"
    /\ RelativePhrase(lower(text)) = "next week"
    /\ parsed' = strftime(now + 7)
    /\ pnow' = now
    /\ ppc' = "done"
    /\ ParseFrame
    /\ UNCHANGED current_date

\* lines 176-177
ParseNextMonth ==
    /\ ppc = "resolve"
    /\ RelativePhrase(lower(text)) = "next month"
    /\ parsed' = strftime(now + 30)
    /\ pnow' = now
    /\ ppc' = "done"
    /\ ParseFrame
    /\ UNCHANGED current_date

\* lines 181-189: the first match of the pattern; a ValueError of datetime()
\* is caught and falls through to line 192
ParseAbsolute ==
    /\ ppc = "resolve"
    /\ RelativePhrase(lower(text)) = ""
    /\ search(text) # <<>>
    /\ LET groups == search(text)
       IN IF DatetimeError(groups) = ""
          THEN /\ parsed' = FormatYMD(int(groups[3]), int(groups[2]), int(groups[1]))
               /\ ppc' = "done"
          ELSE IF Caught(DatetimeError(groups))
          THEN /\ parsed' = current_date
               /\ ppc' = "done"
          ELSE /\ parsed' = ""
               /\ ppc' = "raised"
    /\ ParseFrame
    /\ UNCHANGED <<current_date, pnow>>

\* line 192: no relative phrase and no match
ParseDefault ==
    /\ ppc = "resolve"
    /\ RelativePhrase(lower(text)) = ""
    /\ search(text) = <<>>
    /\ parsed' = current_date
    /\ ppc' = "done"
    /\ ParseFrame
    /\ UNCHANGED <<current_date, pnow>>

\* the days the clock shows when parse_date_from_text is called: a day before
\* a leap day, the last day of a year, the last day of a 28-day February
ClockStarts == {BaseDay, ToOrdinal(2024, 12, 31), ToOrdinal(2023, 2, 28)}

Texts == {
    "today",
    "see you TOMORROW",
    "Next Week please",
    "next month",
    "tomorrow or today",
    "next month or next week",
    "due 5/3/2024",
    "due 05/03/2024 tomorrow",
    "on 31/12/9999",
    "29/02/2024",
    "29/02/2023",
    "13/13/2024",
    "31/04/2024",
    "1/1/0000",
    "31/02/2024 then 01/03/2024",
    "123/4/20245",
    "12/2024",
    "no date",
    "" }

\* the state in which filter_tasks_by_relevance is not running
FilterIdle ==
    /\ tasks = <<>>
    /\ tasks0 = <<>>
    /\ user_message = ""
    /\ pc = "idle"
    /\ rule = 0
    /\ fallback = ""
    /\ capped = FALSE
    /\ selection = <<>>
    /\ filtered_tasks = <<>>
    /\ today = ""
    /\ tomorrow = ""
    /\ yesterday = ""
    /\ start_date = ""
    /\ end_date = ""
    /\ result = <<>>

\* a caller hands a text to parse_date_from_text
InitParse ==
    /\ now \in ClockStarts
    /\ ticks = 0
    /\ text \in Texts
    /\ ppc = "call"
    /\ current_date = ""
    /\ pnow = 0
    /\ parsed = ""
    /\ FilterIdle
    /\ calls = NoCalls
    /\ RouteIdle

NextParse ==
    \/ ParseEnter
    \/ ParseToday
    \/ ParseTomorrow
    \/ ParseNextWeek
    \/ ParseNextMonth
    \/ ParseAbsolute
    \/ ParseDefault
    \/ Tick

SpecParse == InitParse /\ [][NextParse]_vars

---------------------------------------------------------------------------
(* The vocabulary of the properties: what a record says, read from the     *)
(* record's keys alone.                                                    *)

\* whether a key holds exactly the string value
FieldIs(field, value) == field.k = "str" /\ field.v = value

\* the date a record is filed under: its "date" when that is a non-empty
\* string, else its "due_date", "" when it has neither
EffectiveDate(t) ==
    IF t.date.k = "str" /\ t.date.v # "" THEN t.date.v
    ELSE IF t.due_date.k = "str" THEN t.due_date.v ELSE ""

\* whether the title or the description of t contains one of the words,
\* letter case ignored
Mentions(t, words) ==
    \E w \in words :
        \/ t.title.k = "str" /\ Contains(lower(t.title.v), w)
        \/ t.description.k = "str" /\ Contains(lower(t.description.v), w)

Elements(seq) == {seq[i] : i \in 1..Len(seq)}

\* the categories 1..11 that have a trigger keyword in message m
TriggerSet(m) ==
    {r \in 1..11 : \E w \in Elements(RuleKeywords[r]) : Contains(m, w)}

\* the filter of category r as the table of the rules states it, with the
\* dates the call has computed
RulePredicate(r, t) ==
    CASE r = 1 -> EffectiveDate(t) = today
      [] r = 2 -> EffectiveDate(t) = tomorrow
      [] r \in {3, 4} -> /\ EffectiveDate(t) # ""
                         /\ StrLeq(start_date, EffectiveDate(t))
                         /\ StrLeq(EffectiveDate(t), end_date)
      [] r = 5 -> FieldIs(t.priority, "high")
      [] r = 6 -> FieldIs(t.priority, "low")
      [] r = 7 -> FieldIs(t.status, "pending")
      [] r = 8 -> FieldIs(t.status, "in progress")
      [] r = 9 -> FieldIs(t.status, "completed")
      [] r = 10 -> /\ EffectiveDate(t) # ""
                   /\ StrLess(EffectiveDate(t), today)
                   /\ ~FieldIs(t.status, "completed")
      [] r = 11 -> Mentions(t, Elements(ExtractKeywords(lower(user_message))))
      [] OTHER -> FALSE

\* the sort key of the final cap as the claim states it
ClaimRank(t) ==
    IF FieldIs(t.priority, "high") THEN 0
    ELSE IF FieldIs(t.priority, "medium") THEN 1 ELSE 2
ClaimDate(t) == IF EffectiveDate(t) # "" THEN EffectiveDate(t) ELSE "9999-12-31"

\* position p of sel comes before position q in the order of the final cap:
\* a smaller (date, rank), or the same and an earlier position
ComesBefore(sel, p, q) ==
    \/ StrLess(ClaimDate(sel[p]), ClaimDate(sel[q]))
    \/ /\ ClaimDate(sel[p]) = ClaimDate(sel[q])
       /\ \/ ClaimRank(sel[p]) < ClaimRank(sel[q])
          \/ ClaimRank(sel[p]) = ClaimRank(sel[q]) /\ p < q

\* out is the first 15 of sel in that order: out[k] is the element of sel
\* that exactly k-1 others come before
IsCapOf(out, sel) ==
    /\ Len(out) = CapLimit
    /\ \A k \in 1..CapLimit :
           \E p \in 1..Len(sel) :
               /\ out[k] = sel[p]
               /\ Cardinality({q \in 1..Len(sel) : ComesBefore(sel, q, p)}) = k - 1

---------------------------------------------------------------------------
(* Properties of filter_tasks_by_relevance.                                *)

\* C1: whatever branch produced it, the returned list has between 0 and 15
\* records.
C1_OutputBound == pc = "done" => Len(result) \in 0..CapLimit

\* C1 witness: a selection of more than 15 records was cut to 15.
C1_Witness == pc = "done" /\ Len(selection) > CapLimit /\ Len(result) = CapLimit

\* C2: every record of filtered_tasks and of the returned list is one of the
\* input records, with all its field values, and the input list and its
\* records are as the caller passed them, at every step of every branch.
C2_SubsetAndFrame ==
    /\ tasks = tasks0
    /\ \A i \in 1..Len(filtered_tasks) : filtered_tasks[i] \in Elements(tasks0)
    /\ \A i \in 1..Len(selection) : selection[i] \in Elements(tasks0)
    /\ pc = "done" => \A i \in 1..Len(result) : result[i] \in Elements(tasks0)

\* C2 witness: the meeting fallback returned a legacy record (due_date only)
\* in an order that is not the input order.
C2_Witness ==
    /\ pc = "done"
    /\ fallback = "meeting"
    /\ \E i, j \in 1..Len(result) : i < j /\ result[i].ref > result[j].ref
    /\ \E i \in 1..Len(result) : result[i].date.k # "str"

\* C3: when the query has trigger keywords of one or more categories, the
\* branch taken is the least such category and the selection is the set of
\* input records that satisfy the filter of that category alone.
C3_FirstCategoryOnly ==
    (pc = "selected" /\ TriggerSet(lower(user_message)) # {}) =>
        /\ rule \in TriggerSet(lower(user_message))
        /\ \A r \in TriggerSet(lower(user_message)) : rule <= r
        /\ \A i \in 1..Len(tasks) :
               tasks[i] \in Elements(selection) <=> RulePredicate(rule, tasks[i])

\* C3 witness: "urgent tasks for today" selected the records dated today and
\* left out a high-priority record.
C3_Witness ==
    /\ pc = "selected"
    /\ user_message = "urgent tasks for today"
    /\ rule = 1
    /\ selection # <<>>
    /\ \E i \in 1..Len(tasks) :
           FieldIs(tasks[i].priority, "high") /\ tasks[i] \notin Elements(selection)

\* C4: when the branch taken selected a record, no fallback runs, the
\* selection is the input records satisfying the branch's filter in input
\* order, it reaches the final cap untouched, and with at most 15 records it
\* is the returned list; a fallback runs only on an empty selection.
C4_NoFallbackOnSelection ==
    /\ fallback # "" => selection = <<>>
    /\ (pc = "selected" /\ selection # <<>>) =>
           selection = SelectSeq(tasks, LAMBDA t : RulePredicate(rule, t))
    /\ \A i, j \in 1..Len(selection) : i < j => selection[i].ref < selection[j].ref
    /\ (pc = "cap" /\ selection # <<>>) => filtered_tasks = selection
    /\ (pc = "done" /\ selection # <<>> /\ Len(selection) <= CapLimit) =>
           result = selection

\* C4 witness: "meeting tomorrow" returned the records dated tomorrow as
\* selected, a record that mentions no meeting among them.
C4_Witness ==
    /\ pc = "done"
    /\ user_message = "meeting tomorrow"
    /\ rule = 2
    /\ Len(result) >= 2
    /\ result = selection
    /\ \E i \in 1..Len(result) : ~Mentions(result[i], Elements(meeting_keywords))
    /\ \E i \in 1..Len(result) : Mentions(result[i], Elements(meeting_keywords))

\* C5: a list of more than 15 records that reaches the final cap is returned
\* as its first 15 in ascending (date or "9999-12-31", priority rank) order,
\* ties in the order of the list.
C5_CapOrder ==
    [][(pc = "cap" /\ pc' = "done" /\ Len(filtered_tasks) > CapLimit)
           => IsCapOf(result', filtered_tasks)]_vars

\* C5 witness: more than 15 records dated today were selected for "today" and
\* the 15 returned are not the first 15 selected.
C5_Witness ==
    /\ pc = "done"
    /\ capped
    /\ user_message = "today"
    /\ \A i \in 1..Len(selection) : EffectiveDate(selection[i]) = today
    /\ result # SubSeq(selection, 1, CapLimit)

\* C6: for an empty list the call returns an empty list at once: no branch
\* of the chain and no fallback is taken, no date is computed, nothing raises.
C6_EmptyInput ==
    tasks0 = <<>> =>
        /\ pc \in {"idle", "call", "done"}
        /\ result = <<>>
        /\ rule = 0 /\ fallback = "" /\ ~capped
        /\ today = "" /\ tomorrow = "" /\ yesterday = ""
        /\ start_date = "" /\ end_date = ""

\* C6 witness: the call returned for an empty list and a keyword-search query.
C6_Witness ==
    /\ pc = "done"
    /\ tasks0 = <<>>
    /\ 11 \in TriggerSet(lower(user_message))
    /\ result = <<>>

\* C7: no record with an absent, null or unrecognised field makes the call
\* raise.
C7_NeverRaises == pc # "raised"

\* C8 as stated: for "about the budget report" every selected record mentions
\* "budget" or "report".
C8_BudgetOrReportOnly ==
    (pc = "selected" /\ user_message = "about the budget report") =>
        \A i \in 1..Len(selection) : Mentions(selection[i], {"budget", "report"})

\* C8: for "about the budget report" the keyword list is the three words
\* after "about", [the, budget, report], and every selected record mentions
\* "the", "budget" or "report"; a record that mentions none is not selected.
C8_ThreeWordsAfterAbout ==
    (pc = "selected" /\ user_message = "about the budget report") =>
        /\ rule = 11
        /\ ExtractKeywords(lower(user_message)) = <<"the", "budget", "report">>
        /\ \A i \in 1..Len(tasks) :
               tasks[i] \in Elements(selection)
                   <=> Mentions(tasks[i], {"the", "budget", "report"})

\* C8 witness: the query selected some records and left others out.
C8_Witness ==
    /\ pc = "selected"
    /\ user_message = "about the budget report"
    /\ selection # <<>>
    /\ Len(selection) < Len(tasks)

---------------------------------------------------------------------------
(* Properties of parse_date_from_text.                                     *)

\* the calendar day after <<y, m, d>>
NextCalendarDay(date) ==
    IF date[3] < DaysInMonth(date[1], date[2]) THEN <<date[1], date[2], date[3] + 1>>
    ELSE IF date[2] < 12 THEN <<date[1], date[2] + 1, 1>>
    ELSE <<date[1] + 1, 1, 1>>

RECURSIVE DaysLater(_, _)
DaysLater(date, n) == IF n = 0 THEN date ELSE DaysLater(NextCalendarDay(date), n - 1)

\* YYYY-MM-DD of the day n calendar days after the clock read pnow
Resolved(n) ==
    LET date == DaysLater(FromOrdinal(pnow), n) IN FormatYMD(date[1], date[2], date[3])

\* the numbers of the first D/M/YYYY match of the text, day first
FirstMatch ==
    LET groups == search(text)
    IN [day |-> int(groups[1]), month |-> int(groups[2]), year |-> int(groups[3])]

HasMatch == search(text) # <<>>

\* C9: the result is the current date for "today", else the day after for
\* "tomorrow", else 7 days later for "next week", else 30 days later for
\* "next month", letter case ignored; only without any of them the first
\* D/M/YYYY match, read day first, when it is a calendar date; and the
\* current date otherwise.
C9_Resolution ==
    ppc = "done" =>
        LET t == lower(text)
        IN IF Contains(t, "today") THEN parsed = Resolved(0)
           ELSE IF Contains(t, "tomorrow") THEN parsed = Resolved(1)
           ELSE IF Contains(t, "next week") THEN parsed = Resolved(7)
           ELSE IF Contains(t, "next month") THEN parsed = Resolved(30)
           ELSE IF HasMatch /\ ValidDate(FirstMatch.year, FirstMatch.month, FirstMatch.day)
                THEN /\ parsed = FormatYMD(FirstMatch.year, FirstMatch.month, FirstMatch.day)
                     /\ text = "due 5/3/2024" => parsed = "2024-03-05"
           ELSE parsed = Resolved(0)

\* C9 witness: a text with "tomorrow" and an absolute date resolved to the
\* day after the clock read, across the end of a month.
C9_Witness ==
    /\ ppc = "done"
    /\ text = "due 05/03/2024 tomorrow"
    /\ parsed = Resolved(1)
    /\ FromOrdinal(pnow + 1)[3] = 1

\* C10: the call never raises, and when the first D/M/YYYY match is no
\* calendar date (and no relative phrase occurs) the current date is returned.
C10_InvalidDateDiscarded ==
    /\ ppc # "raised"
    /\ (/\ ppc = "done"
        /\ RelativePhrase(lower(text)) = ""
        /\ HasMatch
        /\ ~ValidDate(FirstMatch.year, FirstMatch.month, FirstMatch.day))
           => parsed = current_date /\ current_date = Resolved(0)

\* C10 witness: a text whose first match is 31 February and whose second
\* match is a calendar date returned the current date.
C10_Witness ==
    /\ ppc = "done"
    /\ text = "31/02/2024 then 01/03/2024"
    /\ parsed = current_date
    /\ parsed # ""

---------------------------------------------------------------------------
(* Calls of the filter with a week query, on each day of a week.           *)

\* the task calendar has one task on each day from WeekSpan days before
\* BaseDay to WeekSpan days after it
WeekSpan == 14

\* the days the clock can show when the call begins: Monday 2024-02-26 to
\* Sunday 2024-03-03
WeekStarts == (BaseDay - 1)..(BaseDay + 5)

Calendar ==
    [i \in 1..(2 * WeekSpan + 1) |->
        [Task(Str("Errand"), Absent, Day(i - WeekSpan - 1), Absent,
              Str("medium"), Str("pending")) EXCEPT !.ref = i]]

\* no task; a task on every day; legacy and dateless tasks; tasks of the
\* week after only
WeekLists == {
    <<>>,
    Calendar,
    MakeList(<<6, 4, 8, 5, 10, 18, 7>>, 7),
    MakeList(<<5, 18>>, 2) }

WeekQueries == {"this week", "tasks for the week", "What is due this WEEK?"}

InitWeek ==
    /\ now \in WeekStarts
    /\ ticks = 0
    /\ tasks \in WeekLists
    /\ tasks0 = tasks
    /\ user_message \in WeekQueries
    /\ pc = "call"
    /\ rule = 0
    /\ fallback = ""
    /\ capped = FALSE
    /\ selection = <<>>
    /\ filtered_tasks = <<>>
    /\ today = ""
    /\ tomorrow = ""
    /\ yesterday = ""
    /\ start_date = ""
    /\ end_date = ""
    /\ result = <<>>
    /\ ParseIdle
    /\ calls = NoCalls
    /\ RouteIdle

\* the steps of the filter that a week query can take: branch 4 of the
\* chain, and the schedule and default fallbacks when the week is empty
NextWeek ==
    \/ EmptyInput
    \/ RuleThisWeek
    \/ KeepSelection
    \/ FallbackScheduleStart
    \/ FallbackScheduleEnd
    \/ FallbackDefaultToday
    \/ FallbackDefaultTomorrow
    \/ ReturnUncapped
    \/ Tick

SpecWeek == InitWeek /\ [][NextWeek]_vars

---------------------------------------------------------------------------
(* Two calls of filter_tasks_by_relevance running in parallel on the one   *)
(* ChatService instance of the router (chat_route.py, line 14).            *)

\* the if/elif chain of lines 206-268 as a function of its inputs and of the
\* day the clock shows
RuleSelection(ts, m, day) ==
    CASE Branch(m) = 1 -> SelectDatedOn(ts, strftime(day))
      [] Branch(m) = 2 -> SelectDatedOn(ts, strftime(day + 1))
      [] Branch(m) = 3 -> SelectDatedWithin(ts, strftime(day), strftime(day + 7))
      [] Branch(m) = 4 -> SelectDatedWithin(ts, strftime(day - weekday(day)),
                                            strftime(day - weekday(day) + 6))
      [] Branch(m) = 5 -> SelectPriority(ts, "high")
      [] Branch(m) = 6 -> SelectPriority(ts, "low")
      [] Branch(m) = 7 -> SelectStatus(ts, "pending")
      [] Branch(m) = 8 -> SelectStatus(ts, "in progress")
      [] Branch(m) = 9 -> SelectStatus(ts, "completed")
      [] Branch(m) = 10 -> SelectOverdue(ts, strftime(day))
      [] Branch(m) = 11 -> IF ExtractKeywords(m) = <<>> THEN <<>>
                           ELSE SelectTextMatches(ts, ExtractKeywords(m))
      [] OTHER -> <<>>

\* lines 265-266 raise
ChainRaises(ts, m) ==
    /\ Branch(m) = 11
    /\ ExtractKeywords(m) # <<>>
    /\ \E i \in 1..Len(ts) : LowerRaises(ts[i])

\* the fallbacks of lines 273-312
FallbackSelection(ts, m, day) ==
    IF HasScheduleIntent(m)
    THEN IF HasMeetingIntent(m)
         THEN ScheduleOrder(NarrowToMeetings(
                  SelectDatedWithin(ts, strftime(day - 1), strftime(day + 7))))
         ELSE ScheduleOrder(SelectDatedWithin(ts, strftime(day), strftime(day + 7)))
    ELSE Take(SelectDatedOn(ts, strftime(day)), GroupLimit)
         \o Take(SelectDatedOn(ts, strftime(day + 1)), GroupLimit)

\* lines 285-286 raise
FallbackRaises(ts, m, day) ==
    /\ HasScheduleIntent(m)
    /\ HasMeetingIntent(m)
    /\ LET windowed == SelectDatedWithin(ts, strftime(day - 1), strftime(day + 7))
       IN \E i \in 1..Len(windowed) : LowerRaises(windowed[i])

\* faulty variant of Frame: the names of the function body are kept in one
\* place that all calls share
SharedFrame(c) == 1

\* message_lower and filtered_tasks are local names: each call has its own
Frame(c) == c

\* what no step of a parallel call changes
PairFrame == UNCHANGED <<now, ticks, filterVars, parseVars, routeVars>>

\* lines 196-200
PairEnter(c) ==
    /\ calls.pc[c] = "call"
    /\ IF calls.args[c].tasks = <<>>
       THEN calls' = [calls EXCEPT !.pc[c] = "done", !.result[c] = <<>>]
       ELSE calls' = [calls EXCEPT
                         !.pc[c] = "chain",
                         !.frame[Frame(c)] =
                             [message_lower |-> lower(calls.args[c].user_message),
                              filtered_tasks |-> <<>>]]
    /\ PairFrame

\* lines 206-268
PairChain(c) ==
    /\ calls.pc[c] = "chain"
    /\ LET ts == calls.args[c].tasks
           m == calls.frame[Frame(c)].message_lower
       IN IF ChainRaises(ts, m)
          THEN calls' = [calls EXCEPT !.pc[c] = "raised"]
          ELSE calls' = [calls EXCEPT
                            !.pc[c] = "selected",
                            !.frame[Frame(c)].filtered_tasks = RuleSelection(ts, m, now)]
    /\ PairFrame

\* lines 271-312
PairFallback(c) ==
    /\ calls.pc[c] = "selected"
    /\ LET ts == calls.args[c].tasks
           m == calls.frame[Frame(c)].message_lower
       IN IF calls.frame[Frame(c)].filtered_tasks # <<>>
          THEN calls' = [calls EXCEPT !.pc[c] = "cap"]
          ELSE IF FallbackRaises(ts, m, now)
          THEN calls' = [calls EXCEPT !.pc[c] = "raised"]
          ELSE calls' = [calls EXCEPT
                            !.pc[c] = "cap",
                            !.frame[Frame(c)].filtered_tasks = FallbackSelection(ts, m, now)]
    /\ PairFrame

\* lines 315-323
PairReturn(c) ==
    /\ calls.pc[c] = "cap"
    /\ LET filtered == calls.frame[Frame(c)].filtered_tasks
       IN calls' = [calls EXCEPT
                       !.pc[c] = "done",
                       !.result[c] = IF Len(filtered) > CapLimit
                                     THEN CapOrder(filtered) ELSE filtered]
    /\ PairFrame

PairLists == {
    <<>>,
    MakeList(<<20, 12, 18>>, 3),
    MakeList(<<9, 1, 10, 11>>, 4),
    MakeList(<<1, 2, 13, 14>>, MaxTasks) }

PairQueries == {"today", "about the budget report", "any meetings", "hello"}

\* two callers hand their lists and queries to the filter at the same time
InitPair ==
    /\ now = BaseDay
    /\ ticks = 0
    /\ FilterIdle
    /\ ParseIdle
    /\ RouteIdle
    /\ \E a \in [Calls -> [tasks : PairLists, user_message : PairQueries]] :
           calls = [NoCalls EXCEPT !.pc = [c \in Calls |-> "call"], !.args = a]

NextPair == \E c \in Calls : PairEnter(c) \/ PairChain(c) \/ PairFallback(c) \/ PairReturn(c)

SpecPair == InitPair /\ [][NextPair]_vars

---------------------------------------------------------------------------
(* The task extraction service (voice_assistant.py): dates.                *)

\* s[i..j] are all digits
AllDigits(s, i, j) == \A n \in i..j : isdigit(CharAt(s, n))

\* str.replace('Z', '+00:00'): every Z of s
RECURSIVE ReplaceZ(_)
ReplaceZ(s) ==
    IF s = "" THEN ""
    ELSE (IF CharAt(s, 1) = "Z" THEN "+00:00" ELSE CharAt(s, 1))
         \o ReplaceZ(SubSeq(s, 2, Len(s)))

\* datetime.strptime(s, '%Y-%m-%d') does not raise: four digits, a month of
\* one or two digits, a day of one or two digits (or a space and a digit),
\* nothing after them, and the three name a calendar day
StrptimeYmd(s) ==
    \E ml \in {1, 2} : \E dl \in {1, 2} :
        /\ Len(s) = 6 + ml + dl
        /\ AllDigits(s, 1, 4)
        /\ CharAt(s, 5) = "-"
        /\ AllDigits(s, 6, 5 + ml)
        /\ CharAt(s, 6 + ml) = "-"
        /\ \/ AllDigits(s, 7 + ml, 6 + ml + dl)
           \/ dl = 2 /\ CharAt(s, 7 + ml) = " " /\ isdigit(CharAt(s, 8 + ml))
        /\ LET month == int(SubSeq(s, 6, 5 + ml))
               day == IF CharAt(s, 7 + ml) = " " THEN int(CharAt(s, 8 + ml))
                      ELSE int(SubSeq(s, 7 + ml, 6 + ml + dl))
           IN /\ month \in 1..12
              /\ day \in 1..31
              /\ ValidDate(int(SubSeq(s, 1, 4)), month, day)

\* HH:MM[:SS[.fff[fff]]] at the start of s, and the number of characters it takes
\* (0 when s does not start with a time)
TimeLength(s) ==
    IF ~(/\ AllDigits(s, 1, 2) /\ Len(s) >= 5 /\ CharAt(s, 3) = ":" /\ AllDigits(s, 4, 5)
         /\ int(SubSeq(s, 1, 2)) < 24 /\ int(SubSeq(s, 4, 5)) < 60)
    THEN 0
    ELSE IF ~(Len(s) >= 8 /\ CharAt(s, 6) = ":" /\ AllDigits(s, 7, 8)
              /\ int(SubSeq(s, 7, 8)) < 60)
    THEN 5
    ELSE IF Len(s) >= 15 /\ CharAt(s, 9) = "." /\ AllDigits(s, 10, 15) THEN 15
    ELSE IF Len(s) >= 12 /\ CharAt(s, 9) = "." /\ AllDigits(s, 10, 12) THEN 12
    ELSE 8

\* s is empty or a UTC offset +HH:MM or -HH:MM
IsOffset(s) ==
    \/ s = ""
    \/ /\ Len(s) = 6
       /\ CharAt(s, 1) \in {"+", "-"}
       /\ AllDigits(s, 2, 3) /\ CharAt(s, 4) = ":" /\ AllDigits(s, 5, 6)
       /\ int(SubSeq(s, 2, 3)) < 24 /\ int(SubSeq(s, 5, 6)) < 60

\* datetime.fromisoformat(s) does not raise: YYYY-MM-DD, alone or followed by
\* one separator character, a time and an optional offset
FromIsoFormat(s) ==
    /\ Len(s) >= 10
    /\ AllDigits(s, 1, 4) /\ CharAt(s, 5) = "-" /\ AllDigits(s, 6, 7)
    /\ CharAt(s, 8) = "-" /\ AllDigits(s, 9, 10)
    /\ ValidDate(int(SubSeq(s, 1, 4)), int(SubSeq(s, 6, 7)), int(SubSeq(s, 9, 10)))
    /\ \/ Len(s) = 10
       \/ LET rest == SubSeq(s, 12, Len(s))
          IN /\ TimeLength(rest) > 0
             /\ IsOffset(SubSeq(rest, TimeLength(rest) + 1, Len(rest)))

\* fromisoformat(s).strftime('%Y-%m-%d'), for an s that fromisoformat takes
IsoDay(s) == SubSeq(s, 1, 10)

---------------------------------------------------------------------------
(* The task extraction service (voice_assistant.py): the task dictionary.  *)
(* A decoded JSON object is a record over TaskKeys; a value is a string,   *)
(* null, a number, an array, or the key is absent.                         *)

Number(s) == [k |-> "int", v |-> s]
List(s) == [k |-> "list", v |-> s]

TaskKeys ==
    {"id", "title", "description", "priority", "category", "tags", "date",
     "due_date", "status"}

\* `key in task_data`.
HasKey(td, key) == td[key].k # "absent"

\* Python truthiness of task_data.get(key).
Bool(value) ==
    CASE value.k = "str" -> value.v # ""
      [] value.k = "int" -> value.v # "0"
      [] value.k = "list" -> value.v # ""
      [] OTHER -> FALSE

ValidPriorities == {Str("high"), Str("medium"), Str("low")}

WithTitle(td) ==
    IF ~HasKey(td, "title") \/ ~Bool(td.title)
    THEN [td EXCEPT !.title = Str("Untitled Task")]
    ELSE td

WithDescription(td) ==
    IF ~HasKey(td, "description")
    THEN [td EXCEPT !.description =
              IF HasKey(td, "title") THEN td.title ELSE Str("No description")]
    ELSE td

WithPriority(td) ==
    IF ~HasKey(td, "priority") \/ td.priority \notin ValidPriorities
    THEN [td EXCEPT !.priority = Str("medium")]
    ELSE td

WithCategory(td) ==
    IF ~HasKey(td, "category")
    THEN [td EXCEPT !.category = Str("general")]
    ELSE td

WithTags(td) ==
    IF ~HasKey(td, "tags") THEN [td EXCEPT !.tags = List("")] ELSE td

\* strptime on a truthy value that is not a string raises TypeError, which
\* the `except ValueError` of the date block does not catch.
DateRaises(td) ==
    HasKey(td, "date") /\ Bool(td.date) /\ td.date.k # "str"

\* The value fromisoformat(value.replace('Z', '+00:00')) formats to, or
\* None when either call raises.
IsoDateOf(value) ==
    IF value.k = "str" /\ FromIsoFormat(ReplaceZ(value.v))
    THEN Str(IsoDay(ReplaceZ(value.v)))
    ELSE None

WithDate(td) ==
    IF HasKey(td, "date") /\ Bool(td.date)
    THEN IF StrptimeYmd(td.date.v)
         THEN td
         ELSE [td EXCEPT !.date = IsoDateOf(td.date)]
    ELSE td

WithoutDueDate(td) ==
    IF HasKey(td, "due_date")
    THEN LET filled ==
                 IF /\ Bool(td.due_date)
                    /\ ~Bool(td.date)
                    /\ IsoDateOf(td.due_date) # None
                 THEN [td EXCEPT !.date = IsoDateOf(td.due_date)]
                 ELSE td
         IN  [filled EXCEPT !.due_date = Absent]
    ELSE td

validate_task_data(td) ==
    WithoutDueDate(WithDate(WithTags(WithCategory(WithPriority(
        WithDescription(WithTitle(td)))))))

\* re.search(r'\{.*\}', response_text, re.DOTALL): the text from its first
\* opening brace to its last closing brace, "" when there is no such pair.
OpenAt(s) == {i \in 1..Len(s) : CharAt(s, i) = "{"}
CloseAt(s) == {j \in 1..Len(s) : CharAt(s, j) = "}"}

JsonMatch(s) ==
    IF OpenAt(s) = {} \/ CloseAt(s) = {}
    THEN ""
    ELSE LET first == CHOOSE i \in OpenAt(s) : \A h \in OpenAt(s) : i <= h
             last == CHOOSE j \in CloseAt(s) : \A h \in CloseAt(s) : h <= j
         IN  IF first < last THEN SubSeq(s, first, last) ELSE ""

\* Replies of the model (response.choices[0].message.content).
VoiceReplies ==
    {"Sure!\n{\"title\": \"Call the doctor\", \"description\": \"About the appointment\", \"priority\": \"medium\", \"date\": \"2024-03-05\", \"category\": \"health\", \"tags\": [\"call\", \"doctor\"]}\n",
     "{\"title\": \"Buy milk\"}",
     "{\"title\": \"\", \"description\": null, \"priority\": \"urgent\", \"date\": \"\", \"id\": \"42\", \"status\": \"completed\"}",
     "Here is the task: {\"title\": \"Pay rent\", \"description\": \"monthly\", \"priority\": \"high\", \"date\": \"2024-03-05T09:30:00Z\", \"due_date\": \"2024-04-01\"} Done.",
     "{\"title\": \"Trip\", \"date\": null, \"due_date\": \"2024-03-08T00:00:00Z\"}",
     "  {\"title\": \"Gym\", \"date\": \"tomorrow\", \"due_date\": \"next week\"}  ",
     "{\"title\": \"Plan\", \"date\": 5}",
     "{\"title\": \"Taxes\", \"priority\": \"low\", \"category\": null, \"tags\": null, \"date\": \"2024-3-5\"}",
     "{\"description\": \"Just a note\", \"date\": \"2024-02-30\", \"due_date\": \"2024-03-01\"}",
     "{\"title\": \"Read\", \"date\": \"\", \"due_date\": \"\"}",
     "I could not find a task.",
     "{title: Call}",
     "{\"title\": \"A\"} and {\"title\": \"B\"}",
     "} {"}

\* json.loads on the objects the replies carry: the text of an object and
\* the dictionary it decodes to. Any other text raises JSONDecodeError.
JsonTable ==
    {<<"{\"title\": \"Call the doctor\", \"description\": \"About the appointment\", \"priority\": \"medium\", \"date\": \"2024-03-05\", \"category\": \"health\", \"tags\": [\"call\", \"doctor\"]}",
       [id |-> Absent, title |-> Str("Call the doctor"), description |-> Str("About the appointment"), priority |-> Str("medium"), category |-> Str("health"), tags |-> List("call,doctor"), date |-> Str("2024-03-05"), due_date |-> Absent, status |-> Absent]>>,
     <<"{\"title\": \"Buy milk\"}",
       [id |-> Absent, title |-> Str("Buy milk"), description |-> Absent, priority |-> Absent, category |-> Absent, tags |-> Absent, date |-> Absent, due_date |-> Absent, status |-> Absent]>>,
     <<"{\"title\": \"\", \"description\": null, \"priority\": \"urgent\", \"date\": \"\", \"id\": \"42\", \"status\": \"completed\"}",
       [id |-> Str("42"), title |-> Str(""), description |-> None, priority |-> Str("urgent"), category |-> Absent, tags |-> Absent, date |-> Str(""), due_date |-> Absent, status |-> Str("completed")]>>,
     <<"{\"title\": \"Pay rent\", \"description\": \"monthly\", \"priority\": \"high\", \"date\": \"2024-03-05T09:30:00Z\", \"due_date\": \"2024-04-01\"}",
       [id |-> Absent, title |-> Str("Pay rent"), description |-> Str("monthly"), priority |-> Str("high"), category |-> Absent, tags |-> Absent, date |-> Str("2024-03-05T09:30:00Z"), due_date |-> Str("2024-04-01"), status |-> Absent]>>,
     <<"{\"title\": \"Trip\", \"date\": null, \"due_date\": \"2024-03-08T00:00:00Z\"}",
       [id |-> Absent, title |-> Str("Trip"), description |-> Absent, priority |-> Absent, category |-> Absent, tags |-> Absent, date |-> None, due_date |-> Str("2024-03-08T00:00:00Z"), status |-> Absent]>>,
     <<"{\"title\": \"Gym\", \"date\": \"tomorrow\", \"due_date\": \"next week\"}",
       [id |-> Absent, title |-> Str("Gym"), description |-> Absent, priority |-> Absent, category |-> Absent, tags |-> Absent, date |-> Str("tomorrow"), due_date |-> Str("next week"), status |-> Absent]>>,
     <<"{\"title\": \"Plan\", \"date\": 5}",
       [id |-> Absent, title |-> Str("Plan"), description |-> Absent, priority |-> Absent, category |-> Absent, tags |-> Absent, date |-> Number("5"), due_date |-> Absent, status |-> Absent]>>,
     <<"{\"title\": \"Taxes\", \"priority\": \"low\", \"category\": null, \"tags\": null, \"date\": \"2024-3-5\"}",
       [id |-> Absent, title |-> Str("Taxes"), description |-> Absent, priority |-> Str("low"), category |-> None, tags |-> None, date |-> Str("2024-3-5"), due_date |-> Absent, status |-> Absent]>>,
     <<"{\"description\": \"Just a note\", \"date\": \"2024-02-30\", \"due_date\": \"2024-03-01\"}",
       [id |-> Absent, title |-> Absent, description |-> Str("Just a note"), priority |-> Absent, category |-> Absent, tags |-> Absent, date |-> Str("2024-02-30"), due_date |-> Str("2024-03-01"), status |-> Absent]>>,
     <<"{\"title\": \"Read\", \"date\": \"\", \"due_date\": \"\"}",
       [id |-> Absent, title |-> Str("Read"), description |-> Absent, priority |-> Absent, category |-> Absent, tags |-> Absent, date |-> Str(""), due_date |-> Str(""), status |-> Absent]>>}

JsonDecodes(s) == \E row \in JsonTable : row[1] = s

json_loads(s) == (CHOOSE row \in JsonTable : row[1] = s)[2]

Whitespace == {" ", "\n", "\t"}

RECURSIVE lstrip(_)
lstrip(s) ==
    IF CharAt(s, 1) \in Whitespace THEN lstrip(SubSeq(s, 2, Len(s))) ELSE s

RECURSIVE rstrip(_)
rstrip(s) ==
    IF CharAt(s, Len(s)) \in Whitespace
    THEN rstrip(SubSeq(s, 1, Len(s) - 1))
    ELSE s

strip(s) == rstrip(lstrip(s))

---------------------------------------------------------------------------
(* The voice assistant endpoints (voice_assistant_route.py) and the task   *)
(* extraction service (voice_assistant.py): one request from its arrival   *)
(* to its HTTP response.                                                   *)

RouteFrame == UNCHANGED <<now, ticks, filterVars, parseVars, calls>>

\* An exception: its class and str(e).
Exc(type, message) == [type |-> type, text |-> message]

\* Classes derived from Exception (every class raised here is one).
ExceptionClasses ==
    {"ValueError", "JSONDecodeError", "OpenAIError", "AttributeError",
     "TypeError", "ValidationError"}

\* The value of a dictionary entry or response field holding a task.
NoTask == [k |-> "none"]
Dict(td) == [k |-> "dict", d |-> td]

\* What a call of the service left: a returned dictionary or an exception.
Returned(task, success, message) ==
    [k |-> "returned", task |-> task, success |-> success, message |-> message]
Raised(exc) == [k |-> "raised", exc |-> exc]

\* The except clauses without the final `except Exception`.
VoiceHandlerWithoutCatchAll(exc) ==
    IF exc.type = "JSONDecodeError"
    THEN Returned(NoTask, FALSE,
                  "Failed to parse AI response as JSON: " \o exc.text)
    ELSE IF exc.type = "OpenAIError"
    THEN Returned(NoTask, FALSE, "OpenAI API error: " \o exc.text)
    ELSE Raised(exc)

\* The except clauses of process_voice_and_text, in their order.
VoiceHandler(exc) ==
    IF exc.type = "JSONDecodeError"
    THEN Returned(NoTask, FALSE,
                  "Failed to parse AI response as JSON: " \o exc.text)
    ELSE IF exc.type = "OpenAIError"
    THEN Returned(NoTask, FALSE, "OpenAI API error: " \o exc.text)
    ELSE IF exc.type \in ExceptionClasses
    THEN Returned(NoTask, FALSE, "Error processing voice input: " \o exc.text)
    ELSE Raised(exc)

\* Binding the keyword arguments of a call to the parameters of a method:
\* every parameter without a default is given, and nothing else is.
CallBinds(given, required, accepted) ==
    required \subseteq given /\ given \subseteq accepted

\* process_voice_and_text(self, transcribed_text, date_time)
VoiceParameters == {"transcribed_text", "date_time"}

\* TaskItem(**task): the fields declared str take a string; the optional
\* ones take null or their type as well; an absent optional field takes
\* its default.
TaskItemAccepts(td) ==
    /\ \A key \in {"id", "title", "description", "priority"} :
           td[key].k = "str"
    /\ td.date.k \in {"str", "none", "absent"}
    /\ td.category.k \in {"str", "none", "absent"}
    /\ td.status.k \in {"str", "absent"}
    /\ td.tags.k \in {"list", "none", "absent"}

\* The HTTP response of a raised HTTPException.
HttpError(status, detail) ==
    [status |-> status, detail |-> detail, body |-> NoBody]

\* raise HTTPException(status_code=status, detail=detail)
HTTPException(status, detail) ==
    [type |-> "HTTPException", status |-> status, text |-> detail]

\* The handler of an endpoint that has no `except HTTPException: raise`
\* clause: every exception is answered with HTTP 500.
ProcessHandlerRewrapping(exc) ==
    HttpError(500, "Error processing voice assistant request: " \o exc.text)

\* voice_assistant_route.py 76-79: the except clauses of /process.
ProcessHandler(exc) ==
    IF exc.type = "HTTPException"
    THEN HttpError(exc.status, exc.text)
    ELSE HttpError(500, "Error processing voice assistant request: " \o exc.text)

\* voice_assistant_route.py 115-116: the except clause of
\* /process-text-only.
TextOnlyHandler(exc) == HttpError(500, "Error processing text: " \o exc.text)

\* The HTTP response of a returned VoiceAssistantResponse.
VoiceAssistantResponse(task, success, message) ==
    [status |-> 200, detail |-> "",
     body |-> [k |-> "VoiceAssistantResponse", task |-> task,
               success |-> success, message |-> message]]

\* str(uuid.uuid4()): a value no reply of the model carries.
Uuids ==
    {"0b0e7d52-7c1f-4a64-9d3a-5f6c1e2a9b01",
     "c2a4f6e8-1b3d-4c5e-8f70-9a1b2c3d4e5f"}

\* The results of convert_uploaded_file_to_text, which catches every error
\* of the transcription and reports it in the dictionary it returns.
SttResults ==
    {[success |-> TRUE, text |-> "Call the doctor tomorrow", message |-> "Audio successfully converted to text"],
     [success |-> TRUE, text |-> "", message |-> "Audio successfully converted to text"],
     [success |-> FALSE, text |-> "", message |-> "OpenAI API error: Connection error."]}

VoiceRequests ==
    [filename : {"", "memo.wav"},
     date_time : {"2025-07-24T14:18:36.514Z", "2024-02-27", "yesterday"},
     text : {""},
     task_context : {""}]

TextRequests ==
    [filename : {""}, date_time : {""},
     text : {"Call John about the project tomorrow at 2pm", ""},
     task_context : {""}]

\* voice_assistant_route.py 24-36: the request object and the file name.
ProcessReceive ==
    /\ endpoint = "process"
    /\ rpc = "received"
    /\ IF request.filename = ""
       THEN /\ http_response' =
                   ProcessHandler(HTTPException(400, "No audio file provided"))
            /\ rpc' = "responded"
       ELSE /\ rpc' = "transcribe"
            /\ UNCHANGED http_response
    /\ UNCHANGED <<endpoint, request, steps, stt_result, ai_response,
                   task_data, service_result>>
    /\ RouteFrame

\* voice_assistant_route.py 39-42: the speech-to-text call.
ProcessTranscribe ==
    /\ endpoint = "process"
    /\ rpc = "transcribe"
    /\ steps' = Append(steps, "transcription")
    /\ stt_result' \in SttResults
    /\ rpc' = "transcribed"
    /\ UNCHANGED <<endpoint, request, ai_response, task_data, service_result,
                   http_response>>
    /\ RouteFrame

\* voice_assistant_route.py 44-56: the failure of the transcription is
\* raised as HTTP 400, which `except HTTPException: raise` lets through;
\* otherwise the service is called with the text and the timestamp.
ProcessExtract ==
    /\ endpoint = "process"
    /\ rpc = "transcribed"
    /\ IF ~stt_result.success
       THEN /\ http_response' =
                   ProcessHandler(HTTPException(400,
                       "Speech-to-text conversion failed: " \o stt_result.message))
            /\ rpc' = "responded"
            /\ UNCHANGED steps
       ELSE /\ steps' = Append(steps, "task_extraction")
            /\ IF CallBinds({"transcribed_text", "date_time"},
                            VoiceParameters, VoiceParameters)
               THEN /\ rpc' = "svc_timestamp"
                    /\ UNCHANGED http_response
               ELSE /\ rpc' = "responded"
                    /\ http_response' =
                           ProcessHandler(Exc("TypeError", "process_voice_and_text() missing 1 required positional argument"))
    /\ UNCHANGED <<endpoint, request, stt_result, ai_response, task_data,
                   service_result>>
    /\ RouteFrame

\* voice_assistant_route.py 91-95 and 115-116: the service is called with
\* the text alone; a call that does not bind raises TypeError before the
\* body of the method runs, and the handler answers it with HTTP 500.
TextOnlyExtract ==
    /\ endpoint = "process-text-only"
    /\ rpc = "received"
    /\ steps' = Append(steps, "task_extraction")
    /\ IF CallBinds({"transcribed_text"}, VoiceParameters, VoiceParameters)
       THEN /\ rpc' = "svc_timestamp"
            /\ UNCHANGED http_response
       ELSE /\ rpc' = "responded"
            /\ http_response' =
                   TextOnlyHandler(Exc("TypeError", "process_voice_and_text() missing 1 required positional argument: 'date_time'"))
    /\ UNCHANGED <<endpoint, request, stt_result, ai_response, task_data,
                   service_result>>
    /\ RouteFrame

\* voice_assistant.py 35-38: the timestamp of the request.
SvcTimestamp ==
    /\ rpc = "svc_timestamp"
    /\ IF FromIsoFormat(ReplaceZ(request.date_time))
       THEN /\ rpc' = "svc_model"
            /\ UNCHANGED service_result
       ELSE /\ service_result' =
                   VoiceHandler(Exc("ValueError", "Invalid isoformat string"))
            /\ rpc' = "svc_returned"
    /\ UNCHANGED <<endpoint, request, steps, stt_result, ai_response,
                   task_data, http_response>>
    /\ RouteFrame

\* voice_assistant.py 197-206: the call of the language model, which fails,
\* answers without content, or answers with a text.
SvcModel ==
    /\ rpc = "svc_model"
    /\ \/ /\ service_result' =
                 VoiceHandler(Exc("OpenAIError", "Connection error."))
          /\ rpc' = "svc_returned"
          /\ UNCHANGED ai_response
       \/ /\ service_result' =
                 VoiceHandler(Exc("AttributeError", "'NoneType' object has no attribute 'strip'"))
          /\ rpc' = "svc_returned"
          /\ UNCHANGED ai_response
       \/ /\ \E reply \in VoiceReplies :
                 ai_response' = [kind |-> "text", content |-> strip(reply)]
          /\ rpc' = "svc_json"
          /\ UNCHANGED service_result
    /\ UNCHANGED <<endpoint, request, steps, stt_result, task_data,
                   http_response>>
    /\ RouteFrame

\* voice_assistant.py 208-216: the object in the reply, its identifier and
\* its status.
SvcJson ==
    /\ rpc = "svc_json"
    /\ LET json_str == JsonMatch(ai_response.content)
       IN  IF json_str = ""
           THEN /\ service_result' =
                       VoiceHandler(Exc("ValueError", "No valid JSON found in AI response"))
                /\ rpc' = "svc_returned"
                /\ UNCHANGED task_data
           ELSE IF ~JsonDecodes(json_str)
           THEN /\ service_result' =
                       VoiceHandler(Exc("JSONDecodeError", "Expecting property name enclosed in double quotes"))
                /\ rpc' = "svc_returned"
                /\ UNCHANGED task_data
           ELSE /\ \E id \in Uuids :
                       task_data' =
                           Dict([json_loads(json_str) EXCEPT
                                     !.id = Str(id), !.status = Str("pending")])
                /\ rpc' = "svc_validate"
                /\ UNCHANGED service_result
    /\ UNCHANGED <<endpoint, request, steps, stt_result, ai_response,
                   http_response>>
    /\ RouteFrame

\* voice_assistant.py 218-224: the validation and the result.
SvcValidate ==
    /\ rpc = "svc_validate"
    /\ service_result' =
           IF DateRaises(task_data.d)
           THEN VoiceHandler(Exc("TypeError", "strptime() argument 1 must be str"))
           ELSE Returned(Dict(validate_task_data(task_data.d)), TRUE,
                         "Task successfully created from voice input using OpenAI")
    /\ rpc' = "svc_returned"
    /\ UNCHANGED <<endpoint, request, steps, stt_result, ai_response,
                   task_data, http_response>>
    /\ RouteFrame

\* The except clauses of the endpoint of the request.
EndpointHandler(exc) ==
    IF endpoint = "process" THEN ProcessHandler(exc) ELSE TextOnlyHandler(exc)

\* voice_assistant_route.py 59-79 and 98-116: the response.
VoiceRespond ==
    /\ rpc = "svc_returned"
    /\ steps' = Append(steps, "response")
    /\ http_response' =
           IF service_result.k = "raised"
           THEN EndpointHandler(service_result.exc)
           ELSE IF service_result.success /\ service_result.task # NoTask
           THEN IF TaskItemAccepts(service_result.task.d)
                THEN VoiceAssistantResponse(service_result.task,
                                            service_result.success,
                                            service_result.message)
                ELSE EndpointHandler(Exc("ValidationError",
                                         "validation error for TaskItem"))
           ELSE VoiceAssistantResponse(NoTask, service_result.success,
                                       service_result.message)
    /\ rpc' = "responded"
    /\ UNCHANGED <<endpoint, request, stt_result, ai_response, task_data,
                   service_result>>
    /\ RouteFrame

InitVoice ==
    /\ now = BaseDay
    /\ ticks = 0
    /\ FilterIdle
    /\ ParseIdle
    /\ calls = NoCalls
    /\ \/ endpoint = "process" /\ request \in VoiceRequests
       \/ endpoint = "process-text-only" /\ request \in TextRequests
    /\ rpc = "received"
    /\ steps = <<>>
    /\ stt_result = NoSttResult
    /\ ai_response = NoAiResponse
    /\ task_data = NoTaskData
    /\ service_result = NoServiceResult
    /\ http_response = NoHttpResponse

NextVoice ==
    \/ ProcessReceive
    \/ ProcessTranscribe
    \/ ProcessExtract
    \/ TextOnlyExtract
    \/ SvcTimestamp
    \/ SvcModel
    \/ SvcJson
    \/ SvcValidate
    \/ VoiceRespond

SpecVoice == InitVoice /\ [][NextVoice]_vars

---------------------------------------------------------------------------
(* The chat endpoints (chat_route.py) and process_chat_message (chat.py):  *)
(* one request, or one direct call of the service, from its arrival to the *)
(* response.                                                               *)

\* Replies of the model to a chat message.
ChatReplies ==
    {"Sure, you have two meetings today.",
     "{\"response\": \"You have a budget meeting today.\", \"user_msg\": \"What is due today?\"}",
     "{\"response\": \"Nothing is due.\"}",
     "{\"user_msg\": \"any meetings\"}",
     "{}",
     "  {\"response\": \"Hi\", \"user_msg\": null}\n",
     "{response: nothing}",
     "Here you go: {\"response\": \"x\"}",
     "{\"response\": \"a\"} {\"response\": \"b\"}",
     ""}

\* json.loads on the objects those replies carry; any other text raises
\* JSONDecodeError.
ChatJsonTable ==
    {<<"{\"response\": \"You have a budget meeting today.\", \"user_msg\": \"What is due today?\"}",
       [response |-> Str("You have a budget meeting today."), user_msg |-> Str("What is due today?")]>>,
     <<"{\"response\": \"Nothing is due.\"}",
       [response |-> Str("Nothing is due."), user_msg |-> Absent]>>,
     <<"{\"user_msg\": \"any meetings\"}",
       [response |-> Absent, user_msg |-> Str("any meetings")]>>,
     <<"{}",
       [response |-> Absent, user_msg |-> Absent]>>,
     <<"{\"response\": \"Hi\", \"user_msg\": null}",
       [response |-> Str("Hi"), user_msg |-> None]>>}

ChatJsonDecodes(s) == \E row \in ChatJsonTable : row[1] = s

chat_json_loads(s) == (CHOOSE row \in ChatJsonTable : row[1] = s)[2]

EndsWith(s, suffix) ==
    Len(suffix) <= Len(s)
        /\ SubSeq(s, Len(s) - Len(suffix) + 1, Len(s)) = suffix

\* chat.py 421-440: the dictionary made from the stripped reply of the model
\* and the message of the user.
parse_reply(reply, message) ==
    IF /\ CharAt(strip(reply), 1) = "{"
       /\ EndsWith(strip(reply), "}")
       /\ ChatJsonDecodes(reply)
    THEN LET parsed_response == chat_json_loads(reply)
         IN  [response |-> IF HasKey(parsed_response, "response")
                           THEN parsed_response.response
                           ELSE Str(reply),
              user_msg |-> IF HasKey(parsed_response, "user_msg")
                           THEN parsed_response.user_msg
                           ELSE Str(message)]
    ELSE [response |-> Str(reply), user_msg |-> Str(message)]

\* The except clauses without the final `except Exception`.
ChatServiceHandlerWithoutCatchAll(exc, message) ==
    IF exc.type = "OpenAIError"
    THEN [k |-> "returned",
          d |-> [response |-> Str("I apologize, but I'm experiencing some technical difficulties with the AI service: " \o exc.text),
                 user_msg |-> Str(message)]]
    ELSE Raised(exc)

\* The except clauses of process_chat_message (chat.py 442-451).
ChatServiceHandler(exc, message) ==
    IF exc.type = "OpenAIError"
    THEN [k |-> "returned",
          d |-> [response |-> Str("I apologize, but I'm experiencing some technical difficulties with the AI service: " \o exc.text),
                 user_msg |-> Str(message)]]
    ELSE IF exc.type \in ExceptionClasses
    THEN [k |-> "returned",
          d |-> [response |-> Str("I apologize, but I encountered an error while processing your message: " \o exc.text),
                 user_msg |-> Str(message)]]
    ELSE Raised(exc)

\* process_chat_message(self, message, time_zone, task_context=None)
ChatRequired == {"message", "time_zone"}
ChatParameters == {"message", "time_zone", "task_context"}

\* The keyword arguments of the calls of chat_route.py 24-28 and 114-118.
RouteArguments == {"message", "date_time", "task_context"}

\* chat_route.py 32-33: the except clause of /chat/text.
ChatTextHandler(exc) ==
    HttpError(500, "Error processing chat message: " \o exc.text)

\* The except clauses without `except HTTPException: raise`.
ChatVoiceHandlerRewrapping(exc) ==
    HttpError(500, "Error processing voice chat: " \o exc.text)

\* chat_route.py 122-125: the except clauses of /chat/voice.
ChatVoiceHandler(exc) ==
    IF exc.type = "HTTPException"
    THEN HttpError(exc.status, exc.text)
    ELSE HttpError(500, "Error processing voice chat: " \o exc.text)

\* os.path.splitext(filename)[1]: the text from the last dot of the last
\* component of the path, when a character other than a dot stands before
\* that dot in the component.
splitext(filename) ==
    LET seps == {i \in 1..Len(filename) : CharAt(filename, i) = "/"}
        dots == {i \in 1..Len(filename) : CharAt(filename, i) = "."}
        sep == IF seps = {} THEN 0 ELSE CHOOSE i \in seps : \A h \in seps : h <= i
        dot == IF dots = {} THEN 0 ELSE CHOOSE i \in dots : \A h \in dots : h <= i
    IN  IF dot > sep /\ \E i \in (sep + 1)..(dot - 1) : CharAt(filename, i) # "."
        THEN SubSeq(filename, dot, Len(filename))
        ELSE ""

\* chat.py 28-31
supported_input_formats ==
    {".mp3", ".wav", ".flac", ".aac", ".ogg", ".m4a", ".wma", ".mp4", ".avi",
     ".mov", ".mkv", ".webm", ".3gp", ".amr"}

\* chat.py 158-161
is_audio_format_supported(filename) ==
    lower(splitext(filename)) \in supported_input_formats

\* A task context: none, a list of task dictionaries, or one dictionary.
NoContext == [k |-> "none"]
ContextList(ts) == [k |-> "list", v |-> ts]
ContextDict(t) == [k |-> "dict", v |-> t]

\* `if task_context:`
ContextGiven(ctx) == ctx.k = "dict" \/ (ctx.k = "list" /\ ctx.v # <<>>)

\* chat.py 328-331: the list preprocess_task_context hands to the filter.
ContextTasks(ctx) ==
    IF ctx.k = "dict" THEN <<[ctx.v EXCEPT !.ref = 1]>> ELSE ctx.v

\* What filter_tasks_by_relevance returns for the list ts and the message q
\* when every clock read of the call shows day `day`, and whether it raises.
FilterReturns(ts, q, day) ==
    IF ts = <<>> THEN <<>>
    ELSE LET chosen == RuleSelection(ts, lower(q), day)
             kept == IF chosen # <<>>
                     THEN chosen
                     ELSE FallbackSelection(ts, lower(q), day)
         IN  IF Len(kept) > CapLimit THEN CapOrder(kept) ELSE kept

FilterRaises(ts, q, day) ==
    /\ ts # <<>>
    /\ \/ ChainRaises(ts, lower(q))
       \/ /\ RuleSelection(ts, lower(q), day) = <<>>
          /\ FallbackRaises(ts, lower(q), day)

BudgetMeeting ==
    Task(Str("Budget meeting"), Absent, Str("2024-02-27"), Absent,
         Str("high"), Str("pending"))

\* The task_context form field of /chat/voice and what json.loads makes of
\* it; any other text raises JSONDecodeError.
ContextTable ==
    {<<"[{\"title\": \"Budget meeting\", \"date\": \"2024-02-27\", \"priority\": \"high\", \"status\": \"pending\"}]",
       ContextList(<<[BudgetMeeting EXCEPT !.ref = 1]>>)>>,
     <<"{\"title\": \"Budget meeting\", \"date\": \"2024-02-27\", \"priority\": \"high\", \"status\": \"pending\"}",
       ContextDict(BudgetMeeting)>>,
     <<"[]", ContextList(<<>>)>>}

ContextDecodes(s) == \E row \in ContextTable : row[1] = s

context_loads(s) == (CHOOSE row \in ContextTable : row[1] = s)[2]

Timestamps == {"2025-07-24T14:18:36.514Z", "2024-02-27T09:00:00Z", "yesterday"}

ChatVoiceRequests ==
    [filename : {"", "memo.wav", "Memo.MP3", "notes.txt", ".wav"},
     date_time : {"2025-07-24T14:18:36.514Z", "yesterday"},
     text : {""},
     task_context : {"", "[]", "{\"title\": ", "{\"title\": \"Budget meeting\", \"date\": \"2024-02-27\", \"priority\": \"high\", \"status\": \"pending\"}"}]

Contexts ==
    {NoContext, ContextDict(BudgetMeeting), ContextList(<<>>),
     ContextList(MakeList(<<20, 12, 18>>, 3)),
     ContextList(MakeList(<<9, 1, 10, 11>>, 4))}

ChatTextRequests ==
    [filename : {""},
     date_time : Timestamps,
     text : {"today", "any meetings"},
     task_context : Contexts]

ChatFrame == UNCHANGED <<now, ticks, parseVars, calls, tasks, tasks0, user_message,
                         pc, rule, fallback, capped, selection, filtered_tasks,
                         tomorrow, yesterday, start_date, end_date>>

\* chat_route.py 22-33: /chat/text calls the service with the keyword
\* arguments message, date_time and task_context; a call that does not bind
\* raises TypeError, which the handler answers with HTTP 500.
TextCall ==
    /\ endpoint = "text"
    /\ rpc = "received"
    /\ steps' = Append(steps, "chat_processing")
    /\ IF CallBinds(RouteArguments, ChatRequired, ChatParameters)
       THEN /\ rpc' = "chat_prompt"
            /\ task_data' = request.task_context
            /\ UNCHANGED http_response
       ELSE /\ rpc' = "responded"
            /\ http_response' =
                   ChatTextHandler(Exc("TypeError", "process_chat_message() got an unexpected keyword argument 'date_time'"))
            /\ UNCHANGED task_data
    /\ UNCHANGED <<endpoint, request, stt_result, ai_response, service_result,
                   today, result>>
    /\ ChatFrame

\* A call of the service with the arguments its signature takes: the
\* message, the timestamp in the place of time_zone, the task context.
DirectCall ==
    /\ endpoint = "direct"
    /\ rpc = "received"
    /\ steps' = Append(steps, "chat_processing")
    /\ task_data' = request.task_context
    /\ rpc' = "chat_prompt"
    /\ UNCHANGED <<endpoint, request, stt_result, ai_response, service_result,
                   http_response, today, result>>
    /\ ChatFrame

\* chat_route.py 52-66: the file name and the format of the upload.
VoiceCheck ==
    /\ endpoint = "voice"
    /\ rpc = "received"
    /\ steps' = Append(steps, "format_check")
    /\ IF request.filename = ""
       THEN /\ http_response' =
                   ChatVoiceHandler(HTTPException(400, "No audio file provided"))
            /\ rpc' = "responded"
       ELSE IF ~is_audio_format_supported(request.filename)
       THEN /\ http_response' =
                   ChatVoiceHandler(HTTPException(400, "Unsupported audio format"))
            /\ rpc' = "responded"
       ELSE /\ rpc' = "convert"
            /\ UNCHANGED http_response
    /\ UNCHANGED <<endpoint, request, stt_result, ai_response, task_data,
                   service_result, today, result>>
    /\ ChatFrame

\* chat_route.py 68-86: _validate_and_convert_audio catches every error of
\* the conversion and returns the original content with a message.
VoiceConvert ==
    /\ endpoint = "voice"
    /\ rpc = "convert"
    /\ steps' = Append(steps, "conversion")
    /\ rpc' = "transcribe"
    /\ UNCHANGED <<endpoint, request, stt_result, ai_response, task_data,
                   service_result, http_response, today, result>>
    /\ ChatFrame

\* chat_route.py 88-92: the speech-to-text call.
VoiceTranscribe ==
    /\ endpoint = "voice"
    /\ rpc = "transcribe"
    /\ steps' = Append(steps, "transcription")
    /\ stt_result' \in SttResults
    /\ rpc' = "transcribed"
    /\ UNCHANGED <<endpoint, request, ai_response, task_data, service_result,
                   http_response, today, result>>
    /\ ChatFrame

\* chat_route.py 94-111: the failure of the transcription, then the task
\* context of the form.
VoiceContext ==
    /\ endpoint = "voice"
    /\ rpc = "transcribed"
    /\ IF ~stt_result.success
       THEN /\ http_response' =
                   ChatVoiceHandler(HTTPException(400,
                       "Speech-to-text conversion failed: " \o stt_result.message))
            /\ rpc' = "responded"
            /\ UNCHANGED <<steps, task_data>>
       ELSE /\ steps' = Append(steps, "context_parsing")
            /\ IF request.task_context = ""
               THEN /\ task_data' = NoContext
                    /\ rpc' = "voice_call"
                    /\ UNCHANGED http_response
               ELSE IF ContextDecodes(request.task_context)
               THEN /\ task_data' = context_loads(request.task_context)
                    /\ rpc' = "voice_call"
                    /\ UNCHANGED http_response
               ELSE /\ http_response' =
                           ChatVoiceHandler(HTTPException(400,
                               "Invalid JSON format in task_context"))
                    /\ rpc' = "responded"
                    /\ UNCHANGED task_data
    /\ UNCHANGED <<endpoint, request, stt_result, ai_response, service_result,
                   today, result>>
    /\ ChatFrame

\* chat_route.py 113-125: /chat/voice calls the service with the keyword
\* arguments message, date_time and task_context.
VoiceCall ==
    /\ endpoint = "voice"
    /\ rpc = "voice_call"
    /\ steps' = Append(steps, "chat_processing")
    /\ IF CallBinds(RouteArguments, ChatRequired, ChatParameters)
       THEN /\ rpc' = "chat_prompt"
            /\ UNCHANGED http_response
       ELSE /\ rpc' = "responded"
            /\ http_response' =
                   ChatVoiceHandler(Exc("TypeError", "process_chat_message() got an unexpected keyword argument 'date_time'"))
    /\ UNCHANGED <<endpoint, request, stt_result, ai_response, task_data,
                   service_result, today, result>>
    /\ ChatFrame

\* The message the service was called with.
ChatMessage == IF endpoint = "voice" THEN stt_result.text ELSE request.text

\* chat.py 355-405: the clock read and the system prompt; a task context
\* that is given is filtered against the message on the day of the clock.
ChatPrompt ==
    /\ rpc = "chat_prompt"
    /\ IF ContextGiven(task_data)
       THEN /\ today' = strftime(now)
            /\ IF FilterRaises(ContextTasks(task_data), ChatMessage, now)
               THEN /\ service_result' =
                           ChatServiceHandler(
                               Exc("AttributeError", "'NoneType' object has no attribute 'lower'"),
                               ChatMessage)
                    /\ rpc' = "svc_returned"
                    /\ UNCHANGED result
               ELSE /\ result' = FilterReturns(ContextTasks(task_data), ChatMessage, now)
                    /\ rpc' = "chat_model"
                    /\ UNCHANGED service_result
       ELSE /\ rpc' = "chat_model"
            /\ UNCHANGED <<today, result, service_result>>
    /\ UNCHANGED <<endpoint, request, steps, stt_result, ai_response,
                   task_data, http_response>>
    /\ ChatFrame

\* chat.py 407-418: the call of the language model, which fails, answers
\* without content, or answers with a text.
ChatModel ==
    /\ rpc = "chat_model"
    /\ \/ /\ service_result' =
                 ChatServiceHandler(Exc("OpenAIError", "Connection error."), ChatMessage)
          /\ rpc' = "svc_returned"
          /\ UNCHANGED ai_response
       \/ /\ service_result' =
                 ChatServiceHandler(
                     Exc("AttributeError", "'NoneType' object has no attribute 'strip'"),
                     ChatMessage)
          /\ rpc' = "svc_returned"
          /\ UNCHANGED ai_response
       \/ /\ \E reply \in ChatReplies :
                 ai_response' = [kind |-> "text", content |-> strip(reply)]
          /\ rpc' = "chat_parse"
          /\ UNCHANGED service_result
    /\ UNCHANGED <<endpoint, request, steps, stt_result, task_data,
                   http_response, today, result>>
    /\ ChatFrame

\* chat.py 420-440: the result made from the reply.
ChatParse ==
    /\ rpc = "chat_parse"
    /\ service_result' =
           [k |-> "returned", d |-> parse_reply(ai_response.content, ChatMessage)]
    /\ rpc' = "svc_returned"
    /\ UNCHANGED <<endpoint, request, steps, stt_result, ai_response,
                   task_data, http_response, today, result>>
    /\ ChatFrame

\* ChatResponse(**result) (chat_schema.py 13-15): response takes a string;
\* whether the field task, declared Union[Dict, List, Any] without a
\* default, may be missing depends on the version of the validation
\* library, so either is possible.
ChatResponseOutcomes(d) ==
    IF d.response.k # "str"
    THEN {"ValidationError"}
    ELSE {"ValidationError", "ChatResponse"}

\* The HTTP response of a returned ChatResponse.
ChatResponse(d) ==
    [status |-> 200, detail |-> "",
     body |-> [k |-> "ChatResponse", response |-> d.response, task |-> None]]

\* chat_route.py 30-33 and 120-125, or the return to a caller inside the
\* program.
ChatRespond ==
    /\ rpc = "svc_returned"
    /\ rpc' = "responded"
    /\ IF endpoint = "direct"
       THEN UNCHANGED http_response
       ELSE LET handler(exc) ==
                    IF endpoint = "text" THEN ChatTextHandler(exc)
                    ELSE ChatVoiceHandler(exc)
            IN  IF service_result.k = "raised"
                THEN http_response' = handler(service_result.exc)
                ELSE \E outcome \in ChatResponseOutcomes(service_result.d) :
                         http_response' =
                             IF outcome = "ChatResponse"
                             THEN ChatResponse(service_result.d)
                             ELSE handler(Exc("ValidationError", "validation error for ChatResponse"))
    /\ UNCHANGED <<endpoint, request, steps, stt_result, ai_response,
                   task_data, service_result, today, result>>
    /\ ChatFrame

InitChat ==
    /\ now = BaseDay
    /\ ticks = 0
    /\ FilterIdle
    /\ ParseIdle
    /\ calls = NoCalls
    /\ \/ endpoint = "text" /\ request \in ChatTextRequests
       \/ endpoint = "direct" /\ request \in ChatTextRequests
       \/ endpoint = "voice" /\ request \in ChatVoiceRequests
    /\ rpc = "received"
    /\ steps = <<>>
    /\ stt_result = NoSttResult
    /\ ai_response = NoAiResponse
    /\ task_data = NoTaskData
    /\ service_result = NoServiceResult
    /\ http_response = NoHttpResponse

NextChat ==
    \/ TextCall
    \/ DirectCall
    \/ VoiceCheck
    \/ VoiceConvert
    \/ VoiceTranscribe
    \/ VoiceContext
    \/ VoiceCall
    \/ ChatPrompt
    \/ ChatModel
    \/ ChatParse
    \/ ChatRespond

SpecChat == InitChat /\ [][NextChat]_vars

---------------------------------------------------------------------------
(* Properties of the keyword tests of the chain.                           *)

IsLetter(c) == IndexIn(LowerCase, c) > 0 \/ IndexIn(UpperCase, c) > 0

\* phrase occurs in m as words of its own: with no letter right before it
\* and no letter right after it
OccursAsWords(m, phrase) ==
    \E i \in 0..(Len(m) - Len(phrase)) :
        /\ SubSeq(m, i + 1, i + Len(phrase)) = phrase
        /\ ~IsLetter(CharAt(m, i))
        /\ ~IsLetter(CharAt(m, i + Len(phrase) + 1))

\* the categories 1..11 that have a trigger keyword in m as words of its own
WordTriggerSet(m) ==
    {r \in 1..11 : \E w \in Elements(RuleKeywords[r]) : OccursAsWords(m, w)}

\* C11: a query that contains "related to", and no trigger phrase of the
\* categories 1 to 10 as words of its own, takes branch 11 and selects the
\* records that mention one of the up to 3 words after "related to".
C11_RelatedToIsKeywordSearch ==
    (/\ pc = "selected"
     /\ Contains(lower(user_message), "related to")
     /\ WordTriggerSet(lower(user_message)) \cap (1..10) = {})
        => /\ rule = 11
           /\ \A i \in 1..Len(tasks) :
                  tasks[i] \in Elements(selection)
                      <=> Mentions(tasks[i],
                                   Elements(WordsAfter(lower(user_message), "related to")))

\* C12: a query that contains "least important" or "low priority", and no
\* trigger keyword of the categories 1 to 4, takes branch 6 and selects
\* the records of priority "low".
C12_LeastImportantIsLowPriority ==
    (/\ pc = "selected"
     /\ \/ Contains(lower(user_message), "least important")
        \/ Contains(lower(user_message), "low priority")
     /\ TriggerSet(lower(user_message)) \cap (1..4) = {})
        => /\ rule = 6
           /\ \A i \in 1..Len(tasks) :
                  tasks[i] \in Elements(selection) <=> FieldIs(tasks[i].priority, "low")

---------------------------------------------------------------------------
(* Properties of the week window.                                          *)

\* 2024-01-01 was a Monday
IsMonday(n) == (n - ToOrdinal(2024, 1, 1)) % 7 = 0

\* the most recent Monday on or before day n
MondayOnOrBefore(n) == CHOOSE d \in (n - 6)..n : IsMonday(d)

\* the dates of the Monday-to-Sunday week that contains day n
WeekOf(n) == {strftime(d) : d \in MondayOnOrBefore(n)..(MondayOnOrBefore(n) + 6)}

\* C13: a week query takes branch 4, and the selection of the branch is
\* exactly the tasks dated in the Monday-to-Sunday week that contains the
\* day the branch reads from the clock: from the most recent Monday on or
\* before it to six days later, both included, on every weekday.
C13_MondayToSunday ==
    [][(pc = "call" /\ pc' = "selected")
          => /\ rule' = 4
             /\ start_date' = strftime(MondayOnOrBefore(now))
             /\ end_date' = strftime(MondayOnOrBefore(now) + 6)
             /\ \A i \in 1..Len(tasks) :
                    tasks[i] \in Elements(selection')
                        <=> EffectiveDate(tasks[i]) \in WeekOf(now)]_vars

\* a call on a Sunday has selected the seven tasks of the week that began
\* six days before, the Monday's and the Sunday's among them
C13_Witness ==
    /\ pc = "selected"
    /\ rule = 4
    /\ ticks = 0
    /\ IsMonday(now + 1)
    /\ Len(selection) = 7
    /\ EffectiveDate(selection[1]) = strftime(now - 6)
    /\ EffectiveDate(selection[7]) = strftime(now)

---------------------------------------------------------------------------
(* Properties of the overdue branch.                                       *)

\* s is a calendar date written YYYY-MM-DD
IsIsoDate(s) ==
    /\ Len(s) = 10
    /\ \A i \in 1..10 : IF i \in {5, 8} THEN CharAt(s, i) = "-" ELSE isdigit(CharAt(s, i))
    /\ ValidDate(int(SubSeq(s, 1, 4)), int(SubSeq(s, 6, 7)), int(SubSeq(s, 9, 10)))

\* the day a YYYY-MM-DD date names
DayOf(s) == ToOrdinal(int(SubSeq(s, 1, 4)), int(SubSeq(s, 6, 7)), int(SubSeq(s, 9, 10)))

\* t has a date, and that date is a day before day n
DatedBefore(t, n) == IsIsoDate(EffectiveDate(t)) /\ DayOf(EffectiveDate(t)) < n

\* C14: a query with a trigger of category 10 and none of an earlier
\* category takes branch 10, and the selection is exactly the tasks dated
\* strictly before the day read from the clock whose status is not
\* "completed": no task dated that day, no completed task and no dateless
\* task, and every past task without a status.
C14_Overdue ==
    [][(/\ pc = "call"
        /\ pc' = "selected"
        /\ 10 \in TriggerSet(lower(user_message))
        /\ TriggerSet(lower(user_message)) \cap (1..9) = {})
          => /\ rule' = 10
             /\ \A i \in 1..Len(tasks) :
                    tasks[i] \in Elements(selection')
                        <=> /\ DatedBefore(tasks[i], now)
                            /\ ~FieldIs(tasks[i].status, "completed")]_vars

\* the overdue branch has selected a past task that has no status, and has
\* left out a task dated today, a completed past task and a dateless task
C14_Witness ==
    /\ pc = "selected"
    /\ rule = 10
    /\ \E i \in 1..Len(selection) :
           selection[i].status = Absent /\ DatedBefore(selection[i], now)
    /\ \E i \in 1..Len(tasks) :
           tasks[i] \notin Elements(selection) /\ EffectiveDate(tasks[i]) = strftime(now)
    /\ \E i \in 1..Len(tasks) :
           /\ tasks[i] \notin Elements(selection)
           /\ DatedBefore(tasks[i], now)
           /\ FieldIs(tasks[i].status, "completed")
    /\ \E i \in 1..Len(tasks) :
           tasks[i] \notin Elements(selection) /\ EffectiveDate(tasks[i]) = ""

---------------------------------------------------------------------------
(* Properties of dateless tasks.                                           *)

Dateless(t) == EffectiveDate(t) = ""

\* the branches of the chain that test the date of a task
DateRules == {1, 2, 3, 4, 10}

\* C15 as stated, for the final cap: in a capped result every dateless task
\* stands after every task that has a date.
C15_DatelessAfterEveryDated ==
    (pc = "done" /\ capped) =>
        \A p, q \in 1..Len(result) :
            (Dateless(result[p]) /\ ~Dateless(result[q])) => q < p

\* C15: the date tests of the branches 1 to 4 and 10 are made on the
\* effective date ("date" when a non-empty string, else "due_date") and
\* select no dateless task; no fallback returns a dateless task; the
\* branches 5 to 9 and 11 select every dateless task that meets their test;
\* and in the final cap a dateless task takes the place of a task dated
\* 9999-12-31: after every selected task with an earlier date.
C15_DatelessTasks ==
    /\ (pc = "selected" /\ rule \in DateRules) =>
           \A i \in 1..Len(tasks) :
               tasks[i] \in Elements(selection)
                   <=> ~Dateless(tasks[i]) /\ RulePredicate(rule, tasks[i])
    /\ (pc = "done" /\ fallback # "") =>
           \A i \in 1..Len(result) : ~Dateless(result[i])
    /\ (pc = "selected" /\ rule \in (5..11) \ DateRules) =>
           \A i \in 1..Len(tasks) :
               (Dateless(tasks[i]) /\ RulePredicate(rule, tasks[i]))
                   => tasks[i] \in Elements(selection)
    /\ (pc = "done" /\ capped) =>
           \A p \in 1..Len(result) : \A i \in 1..Len(selection) :
               (/\ Dateless(result[p])
                /\ ~Dateless(selection[i])
                /\ StrLess(EffectiveDate(selection[i]), "9999-12-31"))
                   => \E q \in 1..(p - 1) : result[q] = selection[i]

\* a capped result in which a dateless task stands after the dated ones,
\* for a list that also holds a legacy task selected by its due_date
C15_Witness ==
    /\ pc = "done"
    /\ capped
    /\ \E p \in 2..Len(result) :
           /\ Dateless(result[p])
           /\ \A q \in 1..(p - 1) : ~Dateless(result[q])
           /\ \E q \in 1..(p - 1) : result[q].date = Absent

---------------------------------------------------------------------------
(* Properties of the fallbacks.                                            *)

\* the days the clock has shown since the call began
ClockDays == (now - ticks)..now

\* t has a date, and that date is one of the days lo to hi
DatedIn(t, lo, hi) == IsIsoDate(EffectiveDate(t)) /\ DayOf(EffectiveDate(t)) \in lo..hi

\* the tasks of the input dated from day lo to day hi, in input order
WindowOf(lo, hi) == SelectSeq(tasks, LAMBDA t : DatedIn(t, lo, hi))

ScheduleIntentWords == {"schedule", "agenda", "calendar", "tasks", "what do i have",
                        "meeting", "meetings", "appointments"}
MeetingIntentWords == {"meeting", "meetings", "appointment", "appointments"}
MeetingDomainWords == {"meeting", "conference", "call", "appointment", "attendance",
                       "conferencia"}

ScheduleIntent == \E w \in ScheduleIntentWords : Contains(lower(user_message), w)
MeetingIntent == \E w \in MeetingIntentWords : Contains(lower(user_message), w)

\* the call has returned, and no branch of the chain had selected anything
ReturnedFromFallback == pc = "done" /\ tasks # <<>> /\ selection = <<>>

\* position p of sel comes before position q in the order of the schedule
\* fallbacks: a smaller (rank, date), or the same and an earlier position
ScheduleBefore(sel, p, q) ==
    \/ ClaimRank(sel[p]) < ClaimRank(sel[q])
    \/ /\ ClaimRank(sel[p]) = ClaimRank(sel[q])
       /\ \/ StrLess(ClaimDate(sel[p]), ClaimDate(sel[q]))
          \/ ClaimDate(sel[p]) = ClaimDate(sel[q]) /\ p < q

\* out is the first 10 of sel in that order
IsScheduleOrderOf(out, sel) ==
    /\ Len(out) = (IF Len(sel) < ScheduleLimit THEN Len(sel) ELSE ScheduleLimit)
    /\ \A k \in 1..Len(out) :
           \E p \in 1..Len(sel) :
               /\ out[k] = sel[p]
               /\ Cardinality({q \in 1..Len(sel) : ScheduleBefore(sel, q, p)}) = k - 1

\* C16: when no branch selected anything and the query has schedule intent
\* but no meeting intent, the result is, for one day "today", the tasks
\* dated from today to today + 7, in the order (rank, date), cut to 10.
C16_ScheduleFallback ==
    (ReturnedFromFallback /\ ScheduleIntent /\ ~MeetingIntent) =>
        \E D \in ClockDays : IsScheduleOrderOf(result, WindowOf(D, D + 7))

\* the candidates that mention a meeting word, or all of them when none does
MeetingChoice(candidates) ==
    LET meetings == SelectSeq(candidates, LAMBDA t : Mentions(t, MeetingDomainWords))
    IN IF meetings # <<>> THEN meetings ELSE candidates

\* C17: when no branch selected anything and the query has meeting intent
\* and schedule intent, the result is, for one day "today", the tasks dated
\* from yesterday to today + 7, narrowed to those that mention a meeting
\* word when one of them does, in the order (rank, date), cut to 10.
C17_MeetingFallback ==
    (ReturnedFromFallback /\ ScheduleIntent /\ MeetingIntent) =>
        \E D \in ClockDays :
            IsScheduleOrderOf(result, MeetingChoice(WindowOf(D - 1, D + 7)))

\* C18: when no branch selected anything and the query has no schedule
\* intent, the result is, for one day "today", the first 3 input tasks dated
\* today followed by the first 3 dated tomorrow: at most 6 tasks, none of
\* another date.
C18_DefaultFallback ==
    (ReturnedFromFallback /\ ~ScheduleIntent) =>
        \E D \in ClockDays :
            /\ result = Take(WindowOf(D, D), GroupLimit)
                        \o Take(WindowOf(D + 1, D + 1), GroupLimit)
            /\ Len(result) <= 2 * GroupLimit
            /\ \A i \in 1..Len(result) : DatedIn(result[i], D, D + 1)

\* the date bounds a call has computed, were all of them derived from day D
StartAnchor(D) ==
    IF fallback = "schedule" \/ rule = 3 THEN strftime(D)
    ELSE IF rule = 4 THEN strftime(MondayOnOrBefore(D)) ELSE ""
EndAnchor(D) ==
    IF fallback \in {"schedule", "meeting"} \/ rule = 3 THEN strftime(D + 7)
    ELSE IF rule = 4 THEN strftime(MondayOnOrBefore(D) + 6) ELSE ""
AnchoredAt(D) ==
    /\ today \in {"", strftime(D)}
    /\ tomorrow \in {"", strftime(D + 1)}
    /\ yesterday \in {"", strftime(D - 1)}
    /\ start_date = StartAnchor(D)
    /\ end_date = EndAnchor(D)

\* C19: every date bound of a call is derived from one and the same day:
\* after the chain and at the return there is a day D such that today is D,
\* tomorrow D + 1, yesterday D - 1, and the window bounds D and D + 7,
\* whether a branch or a fallback computed them.
C19_OneMoment ==
    pc \in {"selected", "done"} => \E D \in ClockDays : AnchoredAt(D)

---------------------------------------------------------------------------
(* Properties of parallel calls.                                           *)

\* what a call that runs alone returns for the list ts and the query q on
\* day `day`
FilterAlone(ts, q, day) ==
    IF ts = <<>> THEN <<>>
    ELSE LET chosen == RuleSelection(ts, lower(q), day)
             kept == IF chosen # <<>> THEN chosen ELSE FallbackSelection(ts, lower(q), day)
         IN IF Len(kept) > CapLimit THEN CapOrder(kept) ELSE kept

\* whether a call that runs alone raises
RaisesAlone(ts, q, day) ==
    /\ ts # <<>>
    /\ \/ ChainRaises(ts, lower(q))
       \/ RuleSelection(ts, lower(q), day) = <<>> /\ FallbackRaises(ts, lower(q), day)

\* C20: of two calls that run in parallel, each returns what it would
\* return if it ran alone with its tasks and its query on the same day, and
\* raises only if it would raise alone, whatever the interleaving of their
\* steps.
C20_NoInterference ==
    \A c \in Calls :
        LET a == calls.args[c]
        IN /\ calls.pc[c] = "done" =>
                  /\ ~RaisesAlone(a.tasks, a.user_message, now)
                  /\ calls.result[c] = FilterAlone(a.tasks, a.user_message, now)
           /\ calls.pc[c] = "raised" => RaisesAlone(a.tasks, a.user_message, now)

\* one call has returned a non-empty result while the other call, with
\* another list and another query, is between two of its steps
C20_Witness ==
    \E c, d \in Calls :
        /\ calls.pc[c] = "done"
        /\ calls.result[c] # <<>>
        /\ calls.pc[d] \in {"chain", "selected", "cap"}
        /\ calls.args[c].tasks # calls.args[d].tasks
        /\ calls.args[c].user_message # calls.args[d].user_message
        /\ calls.frame[d].message_lower # calls.frame[c].message_lower

---------------------------------------------------------------------------
(* Properties of the returned list.                                        *)

\* C29: the returned list never holds the same input record twice: no two
\* positions of it hold the record of one input position, whichever branch
\* or fallback produced it.
C29_NoDuplicates ==
    pc = "done" =>
        \A p, q \in 1..Len(result) : result[p].ref = result[q].ref => p = q

\* the default fallback has returned a task of today followed by a task of
\* tomorrow
C29_Witness ==
    /\ pc = "done"
    /\ fallback = "default"
    /\ \E p, q \in 1..Len(result) :
           /\ p < q
           /\ EffectiveDate(result[p]) = today
           /\ EffectiveDate(result[q]) = tomorrow

\* C30: the final cap re-sorts only the selection of a matched branch: a
\* result of a schedule fallback has at most 10 tasks and a result of the
\* default fallback at most 6, so no fallback result is capped, and a
\* schedule result is returned in its (rank, date) order.
C30_FallbackNeverCapped ==
    /\ capped => fallback = "" /\ selection # <<>>
    /\ (pc = "done" /\ fallback \in {"schedule", "meeting"}) =>
           /\ Len(result) <= ScheduleLimit
           /\ \A p, q \in 1..Len(result) :
                  p < q => \/ ClaimRank(result[p]) < ClaimRank(result[q])
                           \/ /\ ClaimRank(result[p]) = ClaimRank(result[q])
                              /\ StrLeq(ClaimDate(result[p]), ClaimDate(result[q]))
    /\ (pc = "done" /\ fallback = "default") => Len(result) <= 2 * GroupLimit

\* a schedule fallback found more than 15 tasks in its window and returned
\* 10 of them, a later-dated task before an earlier-dated one
C30_Witness ==
    /\ pc = "done"
    /\ fallback = "schedule"
    /\ Len(SelectSeq(tasks, LAMBDA t : ~Dateless(t) /\ StrLeq(start_date, EffectiveDate(t))
                                       /\ StrLeq(EffectiveDate(t), end_date))) > CapLimit
    /\ Len(result) = ScheduleLimit
    /\ \E p, q \in 1..Len(result) :
           p < q /\ StrLess(ClaimDate(result[q]), ClaimDate(result[p]))

---------------------------------------------------------------------------
(* Properties of the voice assistant endpoints.                            *)

\* s is an initial part of t
IsPrefixOf(s, t) == Len(s) <= Len(t) /\ s = SubSeq(t, 1, Len(s))

Ran(step) == \E i \in 1..Len(steps) : steps[i] = step

\* C22: a request to /voice-assistant/process runs its steps in the order
\* transcription, task extraction, response; task extraction is called only
\* after a transcription that reported success; a request whose
\* transcription failed ends with HTTP 400 and never calls task extraction.
C22_TranscriptionThenExtraction ==
    endpoint = "process" =>
        /\ IsPrefixOf(steps, <<"transcription", "task_extraction", "response">>)
        /\ Ran("task_extraction") => stt_result.success
        /\ rpc \in {"svc_timestamp", "svc_model", "svc_json", "svc_validate",
                    "svc_returned"} => Ran("task_extraction")
        /\ (rpc = "responded" /\ Ran("transcription") /\ ~stt_result.success) =>
               /\ http_response.status = 400
               /\ ~Ran("task_extraction")
               /\ service_result = NoServiceResult

\* a request whose transcription failed has been answered
C22_Witness ==
    /\ endpoint = "process"
    /\ rpc = "responded"
    /\ steps = <<"transcription">>
    /\ ~stt_result.success
    /\ http_response.status = 400

\* s begins with prefix
StartsWith(s, prefix) ==
    Len(prefix) <= Len(s) /\ SubSeq(s, 1, Len(prefix)) = prefix

\* the messages of the three except clauses of process_voice_and_text
DescribesError(message) ==
    \E prefix \in {"Failed to parse AI response as JSON: ",
                   "OpenAI API error: ", "Error processing voice input: "} :
        StartsWith(message, prefix) /\ Len(message) > Len(prefix)

\* C23: process_voice_and_text never raises; the dictionary it returns has
\* success = True exactly when task is not None; on success the id of the
\* task is a freshly generated identifier and its status is "pending",
\* whatever the reply of the model carried for them; on a failure task is
\* None and message describes the error.
C23_ServiceNeverRaises ==
    /\ service_result.k # "raised"
    /\ service_result.k = "returned" =>
           /\ service_result.success <=> service_result.task # NoTask
           /\ service_result.success =>
                  /\ service_result.task.d.id.k = "str"
                  /\ service_result.task.d.id.v \in Uuids
                  /\ service_result.task.d.status = Str("pending")
           /\ ~service_result.success =>
                  /\ service_result.task = NoTask
                  /\ DescribesError(service_result.message)
    /\ rpc \in {"svc_returned", "responded"} /\ Ran("task_extraction")
           /\ endpoint = "process" => service_result.k = "returned"

\* the service returned a task for a reply that carried an id and a status
\* of its own
C23_Witness ==
    /\ service_result.k = "returned"
    /\ service_result.success
    /\ json_loads(JsonMatch(ai_response.content)).id = Str("42")
    /\ json_loads(JsonMatch(ai_response.content)).status = Str("completed")

\* C24: the dictionary _validate_task_data returns has a non-empty title,
\* a description that is present and not null, a priority among high,
\* medium and low, a category and tags, no due_date, and a date that is
\* absent, null or a YYYY-MM-DD string; a due_date fills date only when
\* date was missing or empty; and the dictionary has the required fields
\* of TaskItem.
C24_ValidatedTask ==
    (service_result.k = "returned" /\ service_result.success) =>
        LET td == service_result.task.d
            given == task_data.d
        IN  /\ Bool(td.title)
            /\ td.description.k \notin {"absent", "none"}
            /\ td.priority \in ValidPriorities
            /\ HasKey(td, "category")
            /\ HasKey(td, "tags")
            /\ ~HasKey(td, "due_date")
            /\ \/ td.date.k \in {"absent", "none"}
               \/ td.date.k = "str" /\ IsIsoDate(td.date.v)
            /\ Bool(WithDate(given).date) => td.date = WithDate(given).date
            /\ TaskItemAccepts(td)

\* C25: a request to /voice-assistant/process-text-only hands its text to
\* the task extraction service and is answered with a VoiceAssistantResponse
\* that carries the success and the message of the result of the service,
\* with its task on success and no task on failure; it is answered with
\* HTTP 500 only when building that response fails.
C25_TextOnlyAnswers ==
    (endpoint = "process-text-only" /\ rpc = "responded") =>
        /\ service_result.k = "returned"
        /\ \/ /\ http_response.status = 200
              /\ http_response.body.k = "VoiceAssistantResponse"
              /\ http_response.body.success = service_result.success
              /\ http_response.body.message = service_result.message
              /\ http_response.body.task = service_result.task
              /\ ~service_result.success => http_response.body.task = NoTask
           \/ /\ http_response.status = 500
              /\ service_result.success
              /\ ~TaskItemAccepts(service_result.task.d)

---------------------------------------------------------------------------
(* Properties of the chat endpoints and of process_chat_message.           *)

\* the timestamp of the request is one fromisoformat takes
TimestampParses == FromIsoFormat(ReplaceZ(request.date_time))

\* the caller was told that the timestamp is invalid: a client error of
\* the endpoint, or a ValueError of the service
InvalidTimestampSignalled ==
    \/ http_response.status \in {400, 422}
    \/ service_result.k = "raised" /\ service_result.exc.type = "ValueError"

\* C21: a chat request whose timestamp (date_time) cannot be parsed ends
\* with an invalid-timestamp failure for the caller, and its tasks are not
\* filtered against a clock chosen by default; with a timestamp that can be
\* parsed, the today of the filter is the date of the timestamp.
C21_TimestampAnchorsFilter ==
    /\ (Ran("chat_processing") /\ rpc = "responded" /\ ~TimestampParses) =>
           InvalidTimestampSignalled /\ today = ""
    /\ (Ran("chat_processing") /\ today # "" /\ TimestampParses) =>
           today = IsoDay(ReplaceZ(request.date_time))

\* C26: a request to /chat/text calls process_chat_message with arguments
\* the method accepts and is answered with the result of the service as a
\* ChatResponse; a request for which the service succeeded is not answered
\* with HTTP 500.
C26_TextAnswers ==
    (endpoint = "text" /\ rpc = "responded") =>
        /\ service_result.k = "returned"
        /\ http_response.status = 200
        /\ http_response.body.k = "ChatResponse"
        /\ http_response.body.response = service_result.d.response

\* the reply of the model is a JSON object that carries a user_msg
CorrectionSupplied ==
    \E row \in ChatJsonTable :
        row[1] = ai_response.content /\ row[2].user_msg.k # "absent"

SuppliedCorrection ==
    (CHOOSE row \in ChatJsonTable : row[1] = ai_response.content)[2].user_msg

C28_VoiceOrder ==
    endpoint = "voice" =>
        /\ IsPrefixOf(steps, <<"format_check", "conversion", "transcription",
                               "context_parsing", "chat_processing">>)
        /\ (rpc = "responded" /\ request.filename = "") =>
               /\ http_response = HttpError(400, "No audio file provided")
               /\ steps = <<"format_check">>
        /\ (rpc = "responded" /\ request.filename # ""
                /\ ~is_audio_format_supported(request.filename)) =>
               /\ http_response.status = 400
               /\ steps = <<"format_check">>
               /\ stt_result = NoSttResult
        /\ (rpc = "responded" /\ Ran("transcription") /\ ~stt_result.success) =>
               /\ http_response.status = 400
               /\ steps = <<"format_check", "conversion", "transcription">>
        /\ (rpc = "responded" /\ Ran("context_parsing")
                /\ request.task_context # ""
                /\ ~ContextDecodes(request.task_context)) =>
               /\ http_response = HttpError(400, "Invalid JSON format in task_context")
               /\ steps = <<"format_check", "conversion", "transcription",
                            "context_parsing">>
               /\ service_result = NoServiceResult
        /\ http_response.status = 400 => ~Ran("chat_processing")

\* a task context that is not JSON was rejected after the transcription
C28_Witness ==
    /\ endpoint = "voice"
    /\ rpc = "responded"
    /\ Len(steps) = 4
    /\ stt_result.success
    /\ http_response.status = 400

=============================================================================
